---- MODULE Spec2Model ----
(***************************************************************************)
(* Model of the PayD backend observability pipeline: the tracing service   *)
(* and the log exporter (services/logging/transports.ts), the metrics      *)
(* collector and the alerting service (services/monitoring/index.ts), and  *)
(* of the frontend's optimistic reordering of employees.                   *)
(*                                                                         *)
(* Conventions.                                                            *)
(*  - Date.now() is the variable now; it advances by Tick only, and every  *)
(*    synchronous handler runs at one instant (Node runs it to completion).*)
(*  - crypto.randomBytes ids are modelled as fresh: the n-th generated id  *)
(*    is the number n.  Id 0 is an id the service never generated (an id   *)
(*    received from outside, e.g. in a traceparent header).                *)
(*  - A nullable field holds Null (the empty tuple) or Some(v).            *)
(*  - The stores' caps are scaled down; the halving uses JavaScript's      *)
(*    slice(-cap / 2), whose argument is truncated towards zero.           *)
(*  - The log exporter (class ElasticsearchTransport) is driven by its     *)
(*    own callers: what the services write to the winston logger is not    *)
(*    routed into it.  A request sent with fetch is settled by a later     *)
(*    step, or never.                                                      *)
(*  - The frontend hook useUpdateEmployeeOrder is modelled with the        *)
(*    employees query of its QueryClient: employees are their ids.         *)
(***************************************************************************)
EXTENDS Integers, Sequences, FiniteSets, TLC

\* ------------------------------------------------------------------ bounds
\* Last instant of the clock in the tracing runs, and in the alerting runs.
MaxTime == 2
MaxAlertTime == 3
\* Span ids (and trace ids) the generator may hand out in the tracing runs,
\* in the span-data runs and in the store runs.
MaxSpans == 2
MaxDataSpans == 2
MaxStoreSpans == 3
\* Log entries one span may carry.
MaxLogs == 1
\* Alert ids the alerting service may hand out.
MaxAlertIds == 3
\* Span ids the generator may hand out before the last call of the propagation runs.
MaxPropSpans == 2
\* Spans started, and the last instant, in the runs that query traces.
MaxQuerySpans == 4
MaxQueryTraces == 2
MaxQueryTime == 2
\* Records handed to the log exporter.
MaxDocs == 4
\* Spans started, and records logged, in the runs where exports fail.
MaxIsoSpans == 2
MaxIsoDocs == 1
\* Timers start() creates, errors and requests held, and the last instant, in
\* the runs of the scheduled checks.
MaxTimers == 2
MaxErrors == 1
MaxCheckRequests == 1
MaxCheckTime == 2
\* Errors held, and the last instant, in the runs of the error-rate check.
MaxRateErrors == 5
MaxRateTime == 2
\* Requests held, and the last instant, in the runs of the response-time check.
MaxRespRequests == 3
MaxRespTime == 2
\* The last instant in the runs that follow stored alerts.
MaxLifeTime == 2
\* The largest result limit a caller passes to getAlerts.
MaxLimit == 1
\* The last instant and the errors, requests and database queries recorded
\* in the runs that follow the collector.
MaxCollectorTime == 4
MaxCollectorErrors == 2
MaxCollectorRequests == 2
MaxDbQueries == 1
\* The inbound requests, the last instant of the runs that follow them, and
\* the error rate from which the error tracker raises an alert (10 a minute in
\* the source, critical from twice that).
MaxRequests == 1
MaxRequestTime == 3
trackerErrorRate == 1
MaxChainAlerts == 2
\* The last instant and the errors recorded in the runs that take summaries.
MaxSummaryTime == 2
MaxSummaryErrors == 2
\* MetricsCollector.slowQueryThresholdMs
slowQueryThresholdMs == 1000
\* The alert ids handed out and the last instant in the runs that follow
\* the notifications.
MaxNotifyAlerts == 3
MaxNotifyTime == 2
\* The alert ids handed out and the last instant in the runs that follow
\* the cooldown map.
MaxCoolAlerts == 4
MaxCoolTime == 3
MaxCoolTimers == 1
\* The reorders of employees started in one run.
MaxMutations == 2
\* The error rate GET /health compares with (50 in the source, scaled).
healthCeiling == 2
\* The spans and traces started and the last instant in the runs that read
\* a trace through the route.
MaxRouteSpans == 3
MaxRouteTraces == 2
MaxRouteTime == 3
\* The longest list of durations percentile is applied to.
MaxPctLen == 21
\* The last instant and the number of recordError calls in the runs that
\* follow the error window.
MaxWindowTime == 5
MaxWindowErrors == 4
\* The number of alerts getAlerts returns when no limit is given (50 in the
\* source, scaled with maxAlerts).
defaultLimit == 1
\* Largest configured ALERT_COOLDOWN_MS, in clock instants.
MaxCooldown == 2
\* Scaled stand-ins for TracingService.maxCompletedSpans (5000 in the source),
\* MetricsCollector.maxMetricsRetained (10000) and AlertingService.maxAlerts (1000).
maxCompletedSpans == 2
maxMetricsRetained == 4
maxAlerts == 2
\* ElasticsearchTransport.bufferLimit (100 in the source).
bufferLimit == 3
\* MetricsCollector.errorWindowMs (60 000 ms) and the retention of the error log
\* (5 * 60 000 ms), in clock instants.
errorWindowMs == 1
errorRetentionMs == 2

\* The lengths of a trace id and of a span id in a traceparent header.
TraceIdLen == 32
SpanIdLen == 16

VARIABLES
    now,              \* Date.now()
    enabled,          \* TracingService.enabled (TRACING_ENABLED)
    sampleRate,       \* TracingService.sampleRate, in percent
    esEnabled,        \* monitoringConfig.ELASTICSEARCH_ENABLED
    nextTraceId,      \* next trace id generateTraceId() returns
    nextSpanId,       \* next span id generateSpanId() returns
    activeSpans,      \* TracingService.activeSpans: Map<spanId, Span>, in insertion order
    completedSpans,   \* TracingService.completedSpans: Span[]
    shipped,          \* the spans handed to shipSpan, in call order
    unsampled,        \* history: trace ids whose root startTrace did not sample
    requestMetrics,   \* MetricsCollector.requestMetrics: RequestMetric[]
    cooldownMs,       \* monitoringConfig.ALERT_COOLDOWN_MS, in clock instants
    emailEnabled,     \* monitoringConfig.ALERT_EMAIL_ENABLED
    alerts,           \* AlertingService.alerts: Alert[]
    lastAlertTime,    \* AlertingService.lastAlertTime: Map<key, number>
    nextAlertId,      \* next alert id createAlert assigns
    emails,           \* the alert ids handed to sendEmailAlert, in call order
    emailSettled,     \* how the calls of sendEmailAlert settled: {[request, outcome]}
    emitted,          \* history: per alert key, when createAlert last stored an alert
    buffer,           \* ElasticsearchTransport.buffer
    nextDocId,        \* identity of the next record log() receives
    bulks,            \* the _bulk requests flush() sent, in order, and how each settled
    flushTimer,       \* ElasticsearchTransport.flushInterval: "live" or "cleared"
    effects,          \* history: what the last exporter handler called, in order
    consoleErrors,    \* number of console.error lines the exporter wrote
    shipSettled,      \* how the requests of shipSpan settled: {[request, response]}
    dbMetrics,        \* MetricsCollector.dbMetrics: [count, totalDurationMs, slowCount]
    errorRateThreshold,       \* monitoringConfig.ERROR_RATE_THRESHOLD
    responseTimeThresholdMs,  \* monitoringConfig.RESPONSE_TIME_THRESHOLD_MS
    errorLog,         \* MetricsCollector.errorLog
    errorCalls,       \* history: the instant of every recordError call so far
    checkInterval,    \* AlertingService.checkInterval: Null or the timer of the last start()
    liveTimers,       \* the setInterval timers of start() not cleared so far
    nextTimerId,      \* identity of the next timer setInterval returns
    employeesCache,   \* queryClient data under EMPLOYEES_QUERY_KEY: Null or Some(employees)
    serverOrder,      \* the order of the employees the API holds
    refetching,       \* a fetch of the employees query is in flight
    invalidated,      \* history: the number of invalidateQueries calls so far
    mutations,        \* the mutations of useUpdateEmployeeOrder, by position
    requests,         \* the inbound requests: what the middleware attached to each
    last              \* history: the last call, its argument and its result

traceCfg == <<enabled, sampleRate, esEnabled>>
traceVars == <<nextTraceId, nextSpanId, activeSpans, completedSpans, shipped, unsampled>>
metricVars == <<requestMetrics, dbMetrics>>
alertCfg == <<cooldownMs, emailEnabled>>
alertVars == <<alerts, lastAlertTime, nextAlertId, emails, emitted>>
exportVars == <<buffer, nextDocId, bulks, flushTimer, effects, consoleErrors, shipSettled>>
checkCfg == <<errorRateThreshold, responseTimeThresholdMs>>
checkVars == <<errorLog, errorCalls, checkInterval, liveTimers, nextTimerId>>
frontVars == <<employeesCache, serverOrder, refetching, invalidated, mutations>>

vars ==
    <<now, traceCfg, traceVars, metricVars, alertCfg, emailSettled, alertVars, exportVars, checkCfg, requests, frontVars,
      checkVars, last>>

\* What a call on one service leaves alone in the others.
notTracing == <<metricVars, alertCfg, emailSettled, alertVars, exportVars, checkCfg, requests, frontVars, checkVars>>
notMetrics == <<traceCfg, traceVars, alertCfg, emailSettled, alertVars, exportVars, checkCfg, requests, frontVars, checkVars>>
notAlerting == <<traceCfg, traceVars, metricVars, exportVars, checkCfg, requests, frontVars, checkVars>>
notExport ==
    <<traceCfg, traceVars, metricVars, alertCfg, emailSettled, alertVars, checkCfg, requests, frontVars, checkVars>>
notFront ==
    <<now, traceCfg, traceVars, metricVars, alertCfg, emailSettled, alertVars, exportVars, checkVars,
      errorRateThreshold, responseTimeThresholdMs, requests>>

\* ------------------------------------------------------------------ values
Null == << >>
Some(v) == <<v>>

Max(a, b) == IF a > b THEN a ELSE b
Min(a, b) == IF a < b THEN a ELSE b

\* Sample rates in percent: 0.0, 0.5 and 1.0.
SampleRates == {0, 50, 100}
\* Values Math.random() may return, in percent: it is in [0, 1).
RandomDraws == {0, 50, 99}

OperationNames == {"GET /x"}
LogMessages == {"m"}
SpanStatuses == {"ok", "error"}

EmptyTags == [k \in {} |-> 0]
TagA(v) == [k \in {"http.method"} |-> v]
\* tags given to startTrace / startSpan, to addSpanTags, and to endSpan
StartTags == {TagA(1)}
AddTags == {TagA(2)}
EndTags == {TagA(3)}

\* Object.assign(target, source)
ObjectAssign(target, source) ==
    [k \in DOMAIN target \cup DOMAIN source |->
        IF k \in DOMAIN source THEN source[k] ELSE target[k]]

\* The history record of a call: its name, its argument, whether it took its
\* main branch (sampled, found, stored), and what it returned.
NoCall == [op |-> "none", arg |-> Null, hit |-> FALSE, ret |-> Null]
Call(op, arg, hit, ret) == [op |-> op, arg |-> arg, hit |-> hit, ret |-> ret]

\* ------------------------------------------------------------------ arrays
\* Array.prototype.slice(start): a negative start counts from the end.
Slice(arr, start) ==
    LET len == Len(arr)
        k == IF start < 0 THEN Max(len + start, 0) ELSE Min(start, len)
    IN SubSeq(arr, k + 1, len)

\* -cap / 2 as slice() reads it: ToIntegerOrInfinity truncates towards zero.
NegHalf(cap) == 0 - (cap \div 2)

\* Mutant of Evict: the store is halved as soon as it reaches its cap.
EvictAtCap(arr, cap) == IF Len(arr) >= cap THEN Slice(arr, NegHalf(cap)) ELSE arr

\* The eviction every bounded store applies after a push:
\*   if (arr.length > cap) arr = arr.slice(-cap / 2)
Evict(arr, cap) == IF Len(arr) > cap THEN Slice(arr, NegHalf(cap)) ELSE arr

\* ------------------------------------------------------------------ Map<spanId, Span>
MapHas(m, id) == \E i \in 1..Len(m) : m[i].spanId = id
MapGet(m, id) == m[CHOOSE i \in 1..Len(m) : m[i].spanId = id]
MapSet(m, id, span) ==
    IF MapHas(m, id)
    THEN [i \in 1..Len(m) |-> IF m[i].spanId = id THEN span ELSE m[i]]
    ELSE Append(m, span)
\* Mutant of MapDelete: the entry is not removed.
MapDeleteKeeps(m, id) == m
MapDelete(m, id) == SelectSeq(m, LAMBDA s : s.spanId # id)
\* The keys of the map (the span ids of an array of spans).
SpanIds(spans) == {spans[i].spanId : i \in 1..Len(spans)}

\* ------------------------------------------------------------------ tracing
\* Mutant of shouldSample: the draw is compared with <=.
shouldSampleInclusive(r) ==
    IF ~enabled THEN FALSE
    ELSE IF sampleRate >= 100 THEN TRUE
    ELSE r <= sampleRate

\* TracingService.shouldSample, r being the value of Math.random()
shouldSample(r) ==
    IF ~enabled THEN FALSE
    ELSE IF sampleRate >= 100 THEN TRUE
    ELSE r < sampleRate

\* The Span object startTrace and startSpan build.
NewSpan(spanId, traceId, parentSpanId, operationName, tags) ==
    [spanId |-> spanId, traceId |-> traceId, parentSpanId |-> parentSpanId,
     operationName |-> operationName, startTime |-> now, endTime |-> Null,
     duration |-> Null, status |-> "in_progress", tags |-> tags, logs |-> << >>]

TraceContext(traceId, spanId, parentSpanId) ==
    [traceId |-> traceId, spanId |-> spanId, parentSpanId |-> parentSpanId]

\* TracingService.startTrace
StartTrace(operationName, tags, r) ==
    LET traceId == nextTraceId
        spanId == nextSpanId
        sampled == shouldSample(r)
    IN /\ nextTraceId' = nextTraceId + 1
       /\ nextSpanId' = nextSpanId + 1
       /\ activeSpans' =
            IF sampled
            THEN MapSet(activeSpans, spanId, NewSpan(spanId, traceId, Null, operationName, tags))
            ELSE activeSpans
       /\ unsampled' = IF sampled THEN unsampled ELSE unsampled \cup {traceId}
       /\ last' = Call("startTrace", Null, sampled, Some(TraceContext(traceId, spanId, Null)))
       /\ UNCHANGED <<now, traceCfg, completedSpans, shipped, notTracing>>

\* TracingService.startSpan
\* Mutant of StartSpan: the span of an unsampled trace is not recorded.
StartSpanSampled(traceId, parentSpanId, operationName, tags) ==
    LET spanId == nextSpanId
        recorded == enabled /\ sampleRate > 0 /\ traceId \notin unsampled
    IN /\ nextSpanId' = nextSpanId + 1
       /\ activeSpans' =
            IF recorded
            THEN MapSet(activeSpans, spanId,
                        NewSpan(spanId, traceId, Some(parentSpanId), operationName, tags))
            ELSE activeSpans
       /\ last' = Call("startSpan", <<traceId, parentSpanId>>, recorded,
                       Some(TraceContext(traceId, spanId, Some(parentSpanId))))
       /\ UNCHANGED <<now, traceCfg, nextTraceId, completedSpans, shipped, unsampled, notTracing>>

StartSpan(traceId, parentSpanId, operationName, tags) ==
    LET spanId == nextSpanId
    IN /\ nextSpanId' = nextSpanId + 1
       /\ activeSpans' =
            IF enabled
            THEN MapSet(activeSpans, spanId,
                        NewSpan(spanId, traceId, Some(parentSpanId), operationName, tags))
            ELSE activeSpans
       /\ last' = Call("startSpan", <<traceId, parentSpanId>>, enabled,
                       Some(TraceContext(traceId, spanId, Some(parentSpanId))))
       /\ UNCHANGED <<now, traceCfg, nextTraceId, completedSpans, shipped, unsampled, notTracing>>

\* Mutant of EndedSpan: the duration is not taken from the start time.
EndedSpanFromZero(span, status, tags) ==
    [span EXCEPT !.endTime = Some(now),
                 !.duration = Some(now),
                 !.status = status,
                 !.tags = ObjectAssign(span.tags, tags)]

\* The span endSpan stores: endTime, duration and status stamped, tags merged.
EndedSpan(span, status, tags) ==
    [span EXCEPT !.endTime = Some(now),
                 !.duration = Some(now - span.startTime),
                 !.status = status,
                 !.tags = ObjectAssign(span.tags, tags)]

\* Mutant of EndSpan: a span that is not active but still in the completed store
\* is shipped again.
EndSpanShipsAgain(spanId, status, tags) ==
    /\ IF ~MapHas(activeSpans, spanId)
       THEN /\ UNCHANGED <<activeSpans, completedSpans>>
            /\ shipped' = IF esEnabled /\ MapHas(completedSpans, spanId)
                           THEN Append(shipped, MapGet(completedSpans, spanId))
                           ELSE shipped
       ELSE LET span == EndedSpan(MapGet(activeSpans, spanId), status, tags)
            IN /\ activeSpans' = MapDelete(activeSpans, spanId)
               /\ completedSpans' = Evict(Append(completedSpans, span), maxCompletedSpans)
               /\ shipped' = IF esEnabled THEN Append(shipped, span) ELSE shipped
    /\ last' = Call("endSpan", <<spanId, status>>, MapHas(activeSpans, spanId), Null)
    /\ UNCHANGED <<now, traceCfg, nextTraceId, nextSpanId, unsampled, notTracing>>

\* TracingService.endSpan
endSpan(spanId, status, tags) ==
    IF ~MapHas(activeSpans, spanId)
    THEN [activeSpans |-> activeSpans, completedSpans |-> completedSpans, shipped |-> shipped]
    ELSE LET span == EndedSpan(MapGet(activeSpans, spanId), status, tags)
         IN [activeSpans |-> MapDelete(activeSpans, spanId),
             completedSpans |-> Evict(Append(completedSpans, span), maxCompletedSpans),
             shipped |-> IF esEnabled THEN Append(shipped, span) ELSE shipped]

EndSpan(spanId, status, tags) ==
    /\ LET st == endSpan(spanId, status, tags)
       IN /\ activeSpans' = st.activeSpans
          /\ completedSpans' = st.completedSpans
          /\ shipped' = st.shipped
    /\ last' = Call("endSpan", <<spanId, status>>, MapHas(activeSpans, spanId), Null)
    /\ UNCHANGED <<now, traceCfg, nextTraceId, nextSpanId, unsampled, notTracing>>

\* TracingService.addSpanLog
AddSpanLog(spanId, message) ==
    /\ activeSpans' =
         IF ~MapHas(activeSpans, spanId) THEN activeSpans
         ELSE LET span == MapGet(activeSpans, spanId)
              IN MapSet(activeSpans, spanId,
                        [span EXCEPT !.logs = Append(@, [timestamp |-> now, message |-> message])])
    /\ last' = Call("addSpanLog", spanId, MapHas(activeSpans, spanId), Null)
    /\ UNCHANGED <<now, traceCfg, nextTraceId, nextSpanId, completedSpans, shipped, unsampled,
                   notTracing>>

\* Mutant of AddSpanTags: the span is looked up in the completed store as well.
AddSpanTagsAnySpan(spanId, tags) ==
    /\ activeSpans' =
         IF ~MapHas(activeSpans, spanId) THEN activeSpans
         ELSE LET span == MapGet(activeSpans, spanId)
              IN MapSet(activeSpans, spanId, [span EXCEPT !.tags = ObjectAssign(@, tags)])
    /\ completedSpans' =
         [i \in 1..Len(completedSpans) |->
            IF completedSpans[i].spanId = spanId
            THEN [completedSpans[i] EXCEPT !.tags = ObjectAssign(@, tags)]
            ELSE completedSpans[i]]
    /\ last' = Call("addSpanTags", spanId, MapHas(activeSpans, spanId), Null)
    /\ UNCHANGED <<now, traceCfg, nextTraceId, nextSpanId, shipped, unsampled, notTracing>>

\* TracingService.addSpanTags
AddSpanTags(spanId, tags) ==
    /\ activeSpans' =
         IF ~MapHas(activeSpans, spanId) THEN activeSpans
         ELSE LET span == MapGet(activeSpans, spanId)
              IN MapSet(activeSpans, spanId, [span EXCEPT !.tags = ObjectAssign(@, tags)])
    /\ last' = Call("addSpanTags", spanId, MapHas(activeSpans, spanId), Null)
    /\ UNCHANGED <<now, traceCfg, nextTraceId, nextSpanId, completedSpans, shipped, unsampled,
                   notTracing>>

\* Array.prototype.sort((a, b) => a.startTime - b.startTime): a stable sort.
RECURSIVE InsertByStart(_, _)
InsertByStart(sorted, s) ==
    IF sorted = << >> THEN <<s>>
    ELSE IF sorted[Len(sorted)].startTime <= s.startTime THEN Append(sorted, s)
    ELSE Append(InsertByStart(SubSeq(sorted, 1, Len(sorted) - 1), s), sorted[Len(sorted)])

RECURSIVE SortByStart(_)
SortByStart(spans) ==
    IF spans = << >> THEN << >>
    ELSE InsertByStart(SortByStart(SubSeq(spans, 1, Len(spans) - 1)), spans[Len(spans)])

\* Mutant of getTrace: the spans are returned as the stores hold them, unsorted.
getTraceUnsorted(traceId) ==
    SelectSeq(activeSpans, LAMBDA s : s.traceId = traceId)
    \o SelectSeq(completedSpans, LAMBDA s : s.traceId = traceId)

\* TracingService.getTrace
getTrace(traceId) ==
    SortByStart(SelectSeq(activeSpans, LAMBDA s : s.traceId = traceId)
                \o SelectSeq(completedSpans, LAMBDA s : s.traceId = traceId))

\* GET /traces/:traceId: the response. The duration runs from the start of
\* the first span to spans[spans.length - 1].endTime || Date.now().
TraceResponse(traceId) ==
    LET spans == getTrace(traceId)
        endTime == spans[Len(spans)].endTime
    IN IF Len(spans) = 0
       THEN [status |-> 404, traceId |-> traceId, spans |-> << >>, totalSpans |-> 0,
             duration |-> 0]
       ELSE [status |-> 200, traceId |-> traceId, spans |-> spans, totalSpans |-> Len(spans),
             duration |-> (IF endTime = Null \/ endTime = Some(0) THEN now ELSE endTime[1])
                           - spans[1].startTime]

\* GET /traces/:traceId
GetTraceRoute(traceId) ==
    /\ last' = Call("GET /traces/:traceId", traceId, TraceResponse(traceId).status = 200,
                    TraceResponse(traceId))
    /\ UNCHANGED <<now, traceCfg, traceVars, notTracing>>

\* A call of TracingService.getTrace: a query, it assigns nothing.
GetTrace(traceId) ==
    /\ last' = Call("getTrace", <<traceId>>, getTrace(traceId) # << >>, getTrace(traceId))
    /\ UNCHANGED <<now, traceCfg, traceVars, notTracing>>

\* ------------------------------------------------------------------ propagation
\* A string is the sequence of its characters.
HexDigits == <<"0", "1", "2", "3", "4", "5", "6", "7", "8", "9", "a", "b", "c", "d", "e", "f">>
Repeat(c, n) == [i \in 1..n |-> c]

\* Buffer.toString('hex') of the n-th value crypto.randomBytes returned, len
\* characters long: the text of the generated id n (n below 16^7).
HexId(n, len) ==
    [i \in 1..len |->
        IF len - i > 6 THEN "0" ELSE HexDigits[((n \div (16 ^ (len - i))) % 16) + 1]]

\* String.prototype.split(sep): the texts between the separators.
Split(s, sep) ==
    LET seps == {i \in 1..Len(s) : s[i] = sep}
        n == Cardinality(seps)
        \* the k-th separator; 0 before the first field and Len(s) + 1 after the last
        at(k) == IF k = 0 THEN 0
                 ELSE IF k = n + 1 THEN Len(s) + 1
                 ELSE CHOOSE i \in seps : Cardinality({j \in seps : j < i}) = k - 1
    IN [k \in 1..(n + 1) |-> SubSeq(s, at(k - 1) + 1, at(k) - 1)]

\* TracingService.parseTraceparent, spanId being what generateSpanId() returns
parseTraceparent(header, spanId) ==
    LET parts == Split(header, "-")
    IN IF Len(parts) # 4 THEN Null
       ELSE LET traceId == parts[2]
                parentSpanId == parts[3]
            IN IF traceId = << >> \/ Len(traceId) # TraceIdLen THEN Null
               ELSE IF parentSpanId = << >> \/ Len(parentSpanId) # SpanIdLen THEN Null
               ELSE Some(TraceContext(traceId, spanId, Some(parentSpanId)))

\* Mutant of toTraceparent: the span id comes before the trace id.
toTraceparentSwapped(ctx) ==
    <<"0", "0", "-">> \o ctx.spanId \o <<"-">> \o ctx.traceId \o <<"-", "0", "1">>

\* TracingService.toTraceparent, of a context whose ids are texts
toTraceparent(ctx) ==
    <<"0", "0", "-">> \o ctx.traceId \o <<"-">> \o ctx.spanId \o <<"-", "0", "1">>

\* TracingService.parseTraceparent, called with the header text
ParseTraceparent(header) ==
    LET parsed == parseTraceparent(header, nextSpanId)
    IN /\ nextSpanId' = IF parsed = Null THEN nextSpanId ELSE nextSpanId + 1
       /\ last' = Call("parseTraceparent", header, parsed # Null, parsed)
       /\ UNCHANGED <<now, traceCfg, nextTraceId, activeSpans, completedSpans, shipped,
                      unsampled, notTracing>>

\* TracingService.toTraceparent
ToTraceparent(ctx) ==
    /\ last' = Call("toTraceparent", ctx, TRUE, Some(toTraceparent(ctx)))
    /\ UNCHANGED <<now, traceCfg, traceVars, notTracing>>

\* tracingMiddleware, up to next(): traceparent is req.get('traceparent'), Null
\* when the request has no such header; r is the value of Math.random().  The
\* context attached to the request and the response header hold the ids as texts.
tracingMiddleware(traceparent, r) ==
    LET truthy == traceparent # Null /\ traceparent[1] # << >>
        parsed == IF truthy THEN parseTraceparent(traceparent[1], nextSpanId) ELSE Null
        continued == parsed # Null
        \* startSpan(parsed.traceId, parsed.parentSpanId || parsed.spanId, ...)
        parent == IF parsed[1].parentSpanId # Null /\ parsed[1].parentSpanId[1] # << >>
                  THEN parsed[1].parentSpanId[1]
                  ELSE HexId(parsed[1].spanId, SpanIdLen)
        spanId == IF continued THEN nextSpanId + 1 ELSE nextSpanId
        sampled == shouldSample(r)
        ctx == IF continued
               THEN TraceContext(parsed[1].traceId, HexId(spanId, SpanIdLen), Some(parent))
               ELSE TraceContext(HexId(nextTraceId, TraceIdLen), HexId(spanId, SpanIdLen), Null)
    IN [nextTraceId |-> IF continued THEN nextTraceId ELSE nextTraceId + 1,
        nextSpanId |-> spanId + 1,
        activeSpans |->
            IF continued
            THEN IF enabled
                 THEN MapSet(activeSpans, spanId,
                             NewSpan(spanId, parsed[1].traceId, Some(parent), "GET /x", TagA(1)))
                 ELSE activeSpans
            ELSE IF sampled
                 THEN MapSet(activeSpans, spanId,
                             NewSpan(spanId, nextTraceId, Null, "GET /x", TagA(1)))
                 ELSE activeSpans,
        unsampled |-> IF continued \/ sampled THEN unsampled ELSE unsampled \cup {nextTraceId},
        continued |-> continued,
        spanId |-> spanId,
        traceContext |-> ctx]

TracingMiddleware(traceparent, r) ==
    LET st == tracingMiddleware(traceparent, r)
    IN /\ nextTraceId' = st.nextTraceId
       /\ nextSpanId' = st.nextSpanId
       /\ activeSpans' = st.activeSpans
       /\ unsampled' = st.unsampled
       /\ last' = Call("tracingMiddleware", traceparent, st.continued,
                       Some([traceContext |-> st.traceContext,
                             traceparent |-> toTraceparent(st.traceContext)]))
       /\ UNCHANGED <<now, traceCfg, completedSpans, shipped, notTracing>>

\* The clock advances, up to the instant limit.
Tick(limit) ==
    /\ now < limit
    /\ now' = now + 1
    /\ UNCHANGED <<traceCfg, traceVars, metricVars, alertCfg, emailSettled, alertVars, exportVars,
                   checkCfg, requests, frontVars, checkVars, last>>

\* ------------------------------------------------------------------ metrics
Methods == {"GET"}
Paths == {"/x"}

\* MetricsCollector.recordRequest
RecordRequest(metric) ==
    /\ requestMetrics' = Evict(Append(requestMetrics, metric), maxMetricsRetained)
    /\ last' = Call("recordRequest", metric, TRUE, Null)
    /\ UNCHANGED <<now, dbMetrics, notMetrics>>

\* MetricsCollector.recordDatabaseQuery
RecordDatabaseQuery(durationMs) ==
    /\ dbMetrics' = [count |-> dbMetrics.count + 1,
                     totalDurationMs |-> dbMetrics.totalDurationMs + durationMs,
                     slowCount |-> dbMetrics.slowCount
                                   + (IF durationMs > slowQueryThresholdMs THEN 1 ELSE 0)]
    /\ last' = Call("recordDatabaseQuery", durationMs, TRUE, Null)
    /\ UNCHANGED <<now, requestMetrics, notMetrics>>

\* ------------------------------------------------------------------ alerting
AlertTypes == {"error_rate", "response_time", "service_down", "custom"}
Severities == {"info", "warning", "critical"}
EmptyMetadata == [k \in {} |-> 0]

AlertParams(type, severity) ==
    [type |-> type, severity |-> severity, title |-> "title", message |-> "message",
     metadata |-> EmptyMetadata]

\* const alertKey = `${params.type}:${params.severity}`
AlertKey(params) == <<params.type, params.severity>>

\* Mutant of InCooldown: the cooldown is compared with <=.
InCooldownInclusive(lat, key) ==
    /\ key \in DOMAIN lat
    /\ lat[key] # 0
    /\ now - lat[key] <= cooldownMs

\* lastTime && now - lastTime < monitoringConfig.ALERT_COOLDOWN_MS
InCooldown(lat, key) ==
    /\ key \in DOMAIN lat
    /\ lat[key] # 0
    /\ now - lat[key] < cooldownMs

\* Map.prototype.set on lastAlertTime
SetLast(lat, key, t) == [k \in DOMAIN lat \cup {key} |-> IF k = key THEN t ELSE lat[k]]

\* The alerting service's state, as createAlert reads and returns it.
AlertState ==
    [alerts |-> alerts, lastAlertTime |-> lastAlertTime, nextAlertId |-> nextAlertId,
     emails |-> emails, ret |-> Null]

\* Mutant of createAlert: the cooldown map keeps the keys of stored alerts only.
createAlertForgetsEvicted(st, params) ==
    IF InCooldown(st.lastAlertTime, AlertKey(params))
    THEN [st EXCEPT !.ret = Null]
    ELSE LET alert == [id |-> st.nextAlertId, type |-> params.type,
                       severity |-> params.severity, title |-> params.title,
                       message |-> params.message, timestamp |-> now,
                       metadata |-> params.metadata, acknowledged |-> FALSE]
             stored == Evict(Append(st.alerts, alert), maxAlerts)
             lat == SetLast(st.lastAlertTime, AlertKey(params), now)
         IN [alerts |-> stored,
             lastAlertTime |->
                 [k \in {<<stored[i].type, stored[i].severity>> : i \in 1..Len(stored)}
                     |-> lat[k]],
             nextAlertId |-> st.nextAlertId + 1,
             emails |-> IF emailEnabled THEN Append(st.emails, alert.id) ELSE st.emails,
             ret |-> Some(alert)]

\* Mutant of createAlert: a suppressed call restarts the key's cooldown.
createAlertRestartsCooldown(st, params) ==
    IF InCooldown(st.lastAlertTime, AlertKey(params))
    THEN [st EXCEPT !.ret = Null,
                    !.lastAlertTime = SetLast(st.lastAlertTime, AlertKey(params), now)]
    ELSE LET alert == [id |-> st.nextAlertId, type |-> params.type,
                       severity |-> params.severity, title |-> params.title,
                       message |-> params.message, timestamp |-> now,
                       metadata |-> params.metadata, acknowledged |-> FALSE]
         IN [alerts |-> Evict(Append(st.alerts, alert), maxAlerts),
             lastAlertTime |-> SetLast(st.lastAlertTime, AlertKey(params), now),
             nextAlertId |-> st.nextAlertId + 1,
             emails |-> IF emailEnabled THEN Append(st.emails, alert.id) ELSE st.emails,
             ret |-> Some(alert)]

\* AlertingService.createAlert, from state st: the state after it and, in ret,
\* what it returns.
createAlert(st, params) ==
    IF InCooldown(st.lastAlertTime, AlertKey(params))
    THEN [st EXCEPT !.ret = Null]
    ELSE LET alert == [id |-> st.nextAlertId, type |-> params.type,
                       severity |-> params.severity, title |-> params.title,
                       message |-> params.message, timestamp |-> now,
                       metadata |-> params.metadata, acknowledged |-> FALSE]
         IN [alerts |-> Evict(Append(st.alerts, alert), maxAlerts),
             lastAlertTime |-> SetLast(st.lastAlertTime, AlertKey(params), now),
             nextAlertId |-> st.nextAlertId + 1,
             emails |-> IF emailEnabled THEN Append(st.emails, alert.id) ELSE st.emails,
             ret |-> Some(alert)]

\* A createAlert call from outside the alerting service.
CreateAlert(params) ==
    LET st == createAlert(AlertState, params)
    IN /\ alerts' = st.alerts
       /\ lastAlertTime' = st.lastAlertTime
       /\ nextAlertId' = st.nextAlertId
       /\ emails' = st.emails
       /\ emitted' = IF st.ret = Null THEN emitted ELSE SetLast(emitted, AlertKey(params), now)
       /\ last' = Call("createAlert", AlertKey(params), st.ret # Null, st.ret)
       /\ UNCHANGED <<now, alertCfg, emailSettled, notAlerting>>

\* Mutant of AcknowledgeAlert: the flag is flipped.
AcknowledgeAlertFlips(alertId) ==
    LET found == {i \in 1..Len(alerts) : alerts[i].id = alertId}
        first == CHOOSE i \in found : \A j \in found : i <= j
    IN /\ alerts' = IF found = {} THEN alerts
                    ELSE [alerts EXCEPT ![first].acknowledged = ~alerts[first].acknowledged]
       /\ last' = Call("acknowledgeAlert", alertId, found # {}, Some(found # {}))
       /\ UNCHANGED <<now, alertCfg, emailSettled, lastAlertTime, nextAlertId, emails, emitted, notAlerting>>

\* Mutant of AcknowledgeAlert: every stored alert is acknowledged.
AcknowledgeAlertAll(alertId) ==
    LET found == {i \in 1..Len(alerts) : alerts[i].id = alertId}
    IN /\ alerts' = IF found = {} THEN alerts
                    ELSE [i \in 1..Len(alerts) |-> [alerts[i] EXCEPT !.acknowledged = TRUE]]
       /\ last' = Call("acknowledgeAlert", alertId, found # {}, Some(found # {}))
       /\ UNCHANGED <<now, alertCfg, emailSettled, lastAlertTime, nextAlertId, emails, emitted, notAlerting>>

\* AlertingService.acknowledgeAlert
AcknowledgeAlert(alertId) ==
    LET found == {i \in 1..Len(alerts) : alerts[i].id = alertId}
        first == CHOOSE i \in found : \A j \in found : i <= j
    IN /\ alerts' = IF found = {} THEN alerts
                    ELSE [alerts EXCEPT ![first].acknowledged = TRUE]
       /\ last' = Call("acknowledgeAlert", alertId, found # {}, Some(found # {}))
       /\ UNCHANGED <<now, alertCfg, emailSettled, lastAlertTime, nextAlertId, emails, emitted, notAlerting>>

\* Array.prototype.slice(0, end): a negative end counts from the end.
SliceTo(arr, end) ==
    LET len == Len(arr)
        k == IF end < 0 THEN Max(len + end, 0) ELSE Min(end, len)
    IN SubSeq(arr, 1, k)

\* result.sort((a, b) => b.timestamp - a.timestamp): the sort is stable, so
\* alerts of one instant keep the order they were stored in.
InsertAlert(sorted, a) ==
    LET k == Cardinality({i \in 1..Len(sorted) : sorted[i].timestamp >= a.timestamp})
    IN SubSeq(sorted, 1, k) \o <<a>> \o SubSeq(sorted, k + 1, Len(sorted))

RECURSIVE SortNewestFirst(_)
SortNewestFirst(arr) ==
    IF arr = << >> THEN << >>
    ELSE InsertAlert(SortNewestFirst(SubSeq(arr, 1, Len(arr) - 1)), arr[Len(arr)])

\* A filter; a field that is not given is Null.
AlertFilter(severity, type, acknowledged, limit) ==
    [severity |-> severity, type |-> type, acknowledged |-> acknowledged, limit |-> limit]

\* filter?.limit || 50: a limit of 0 is falsy and gives the default.
LimitOf(filter) ==
    IF filter.limit = Null \/ filter.limit = Some(0) THEN defaultLimit ELSE filter.limit[1]

\* AlertingService.getAlerts
getAlerts(filter) ==
    LET r1 == IF filter.severity # Null
              THEN SelectSeq(alerts, LAMBDA a : Some(a.severity) = filter.severity)
              ELSE alerts
        r2 == IF filter.type # Null
              THEN SelectSeq(r1, LAMBDA a : Some(a.type) = filter.type)
              ELSE r1
        r3 == IF filter.acknowledged # Null
              THEN SelectSeq(r2, LAMBDA a : Some(a.acknowledged) = filter.acknowledged)
              ELSE r2
    IN SliceTo(SortNewestFirst(r3), LimitOf(filter))

GetAlerts(filter) ==
    /\ last' = Call("getAlerts", filter, TRUE, getAlerts(filter))
    /\ UNCHANGED <<now, alertCfg, emailSettled, alertVars, notAlerting>>

\* Mutant of EmailSettles: the alert of a failed e-mail is taken back.
EmailSettlesRevokes(i, outcome) ==
    /\ i \in 1..Len(emails)
    /\ \A r \in emailSettled : r.request # i
    /\ emailSettled' = emailSettled \cup {[request |-> i, outcome |-> outcome]}
    /\ alerts' = IF outcome = "sent" THEN alerts
                 ELSE SelectSeq(alerts, LAMBDA a : a.id # emails[i])
    /\ last' = Call("emailSettles", <<i>>, outcome = "sent", Null)
    /\ UNCHANGED <<now, cooldownMs, emailEnabled, lastAlertTime, nextAlertId, emails,
                   emitted, notAlerting>>

\* The rest of AlertingService.sendEmailAlert, after its awaits: the i-th
\* e-mail is sent, or the import or sendMail rejects; the catch logs the
\* failure and the promise resolves, so the .catch of createAlert never runs.
EmailSettles(i, outcome) ==
    /\ i \in 1..Len(emails)
    /\ \A r \in emailSettled : r.request # i
    /\ emailSettled' = emailSettled \cup {[request |-> i, outcome |-> outcome]}
    /\ last' = Call("emailSettles", <<i>>, outcome = "sent", Null)
    /\ UNCHANGED <<now, cooldownMs, emailEnabled, alertVars, notAlerting>>

\* ------------------------------------------------------------------ scheduled checks
ErrorMessages == {"boom"}

\* Mutant of RecordError: nothing is pruned.
RecordErrorKeepsAll(message, path) ==
    LET e == [message |-> message, path |-> path, timestamp |-> now]
    IN /\ errorLog' = Append(errorLog, e)
       /\ errorCalls' = Append(errorCalls, now)
       /\ last' = Call("recordError", <<message, path>>, TRUE, Null)
       /\ UNCHANGED <<now, traceCfg, traceVars, metricVars, alertCfg, emailSettled, alertVars,
                      exportVars, checkCfg, requests, frontVars, checkInterval, liveTimers, nextTimerId>>

\* MetricsCollector.recordError
RecordError(message, path) ==
    LET e == [message |-> message, path |-> path, timestamp |-> now]
        cutoff == now - errorRetentionMs
    IN /\ errorLog' = SelectSeq(Append(errorLog, e), LAMBDA x : x.timestamp > cutoff)
       /\ errorCalls' = Append(errorCalls, now)
       /\ last' = Call("recordError", <<message, path>>, TRUE, Null)
       /\ UNCHANGED <<now, traceCfg, traceVars, metricVars, alertCfg, emailSettled, alertVars, exportVars,
                      checkCfg, requests, frontVars, checkInterval, liveTimers, nextTimerId>>

\* Mutant of getErrorRate: an error exactly one window old is still counted.
getErrorRateInclusive ==
    Len(SelectSeq(errorLog, LAMBDA e : e.timestamp >= now - errorWindowMs))

\* MetricsCollector.getErrorRate
getErrorRate ==
    Len(SelectSeq(errorLog, LAMBDA e : e.timestamp > now - errorWindowMs))

GetErrorRate ==
    /\ last' = Call("getErrorRate", Null, TRUE, getErrorRate)
    /\ UNCHANGED <<now, traceCfg, traceVars, metricVars, alertCfg, emailSettled, alertVars, exportVars,
                   checkCfg, requests, frontVars, checkVars>>

\* Array.prototype.sort((a, b) => a - b)
RECURSIVE InsertNumber(_, _)
InsertNumber(sorted, n) ==
    IF sorted = << >> THEN <<n>>
    ELSE IF sorted[Len(sorted)] <= n THEN Append(sorted, n)
    ELSE Append(InsertNumber(SubSeq(sorted, 1, Len(sorted) - 1), n), sorted[Len(sorted)])

RECURSIVE SortNumbers(_)
SortNumbers(ns) ==
    IF ns = << >> THEN << >>
    ELSE InsertNumber(SortNumbers(SubSeq(ns, 1, Len(ns) - 1)), ns[Len(ns)])

\* Mutant of percentile: the rank is rounded down.
percentileFloor(sorted, p) ==
    IF Len(sorted) = 0 THEN 0
    ELSE sorted[Max(1, (p * Len(sorted)) \div 100)]

\* MetricsCollector.percentile: sorted[max(0, ceil(p / 100 * length) - 1)],
\* with 1-based indices here. The source computes p / 100 * length in
\* floating point; for the lengths used here (below 25) its ceiling is the
\* exact one, (p * length + 99) \div 100.
percentile(sorted, p) ==
    IF Len(sorted) = 0 THEN 0
    ELSE sorted[Max(1, (p * Len(sorted) + 99) \div 100)]

\* A call of percentile, as getSummary makes it on the sorted durations.
Percentile(sorted, p) ==
    /\ last' = Call("percentile", <<sorted, p>>, sorted # << >>, percentile(sorted, p))
    /\ UNCHANGED <<now, traceCfg, traceVars, metricVars, alertCfg, emailSettled, alertVars, exportVars,
                   checkCfg, requests, frontVars, checkVars>>

\* Array.prototype.reduce((a, b) => a + b, 0)
RECURSIVE Sum(_)
Sum(ns) == IF ns = << >> THEN 0 ELSE Sum(SubSeq(ns, 1, Len(ns) - 1)) + ns[Len(ns)]

\* Math.round(a / b) for a >= 0, b > 0: halves round up.
RoundDiv(a, b) == (2 * a + b) \div (2 * b)

\* Mutant of byStatus: only the successful requests are counted.
byStatusSuccessOnly ==
    [g \in {2} |-> Len(SelectSeq(requestMetrics, LAMBDA m : m.statusCode \div 100 = g))]

\* The status groups of getSummary: group g stands for the key "<g>xx".
byStatus ==
    [g \in {requestMetrics[i].statusCode \div 100 : i \in 1..Len(requestMetrics)} |->
        Len(SelectSeq(requestMetrics, LAMBDA m : m.statusCode \div 100 = g))]

byMethod ==
    [g \in {requestMetrics[i].method : i \in 1..Len(requestMetrics)} |->
        Len(SelectSeq(requestMetrics, LAMBDA m : m.method = g))]

\* The requests and errors part of MetricsCollector.getSummary.
getSummary ==
    LET durations == SortNumbers([i \in 1..Len(requestMetrics) |-> requestMetrics[i].durationMs])
    IN [total |-> Len(requestMetrics),
        averageDurationMs |-> IF Len(durations) > 0
                              THEN RoundDiv(Sum(durations), Len(durations)) ELSE 0,
        p95DurationMs |-> percentile(durations, 95),
        p99DurationMs |-> percentile(durations, 99),
        byStatus |-> byStatus,
        byMethod |-> byMethod,
        errorRate |-> getErrorRate]

GetSummary ==
    /\ last' = Call("getSummary", Null, TRUE, getSummary)
    /\ UNCHANGED <<now, traceCfg, traceVars, metricVars, alertCfg, emailSettled, alertVars, exportVars,
                   checkCfg, requests, frontVars, checkVars>>

\* GET /health: the response. healthy = summary.errors.rate < 50.
HealthResponse ==
    LET summary == getSummary
        healthy == summary.errorRate < healthCeiling
    IN [code |-> IF healthy THEN 200 ELSE 503,
        status |-> IF healthy THEN "healthy" ELSE "degraded",
        totalRequests |-> summary.total,
        errorRate |-> summary.errorRate,
        avgResponseMs |-> summary.averageDurationMs]

\* GET /health
Health ==
    /\ last' = Call("GET /health", Null, HealthResponse.code = 200, HealthResponse)
    /\ UNCHANGED <<now, traceCfg, traceVars, metricVars, alertCfg, emailSettled, alertVars, exportVars,
                   checkCfg, requests, frontVars, checkVars>>

\* Mutant of checkErrorRate: critical only above twice the threshold.
checkErrorRateAboveTwice(st) ==
    LET errorRate == getErrorRate
    IN IF errorRate >= errorRateThreshold
       THEN createAlert(st,
                [type |-> "error_rate",
                 severity |-> IF errorRate > errorRateThreshold * 2 THEN "critical"
                              ELSE "warning",
                 title |-> "High Error Rate Detected",
                 message |-> <<"Error rate", errorRate, errorRateThreshold>>,
                 metadata |-> [errorRate |-> errorRate, threshold |-> errorRateThreshold]])
       ELSE [st EXCEPT !.ret = Null]

\* AlertingService.checkErrorRate, from state st
checkErrorRate(st) ==
    LET errorRate == getErrorRate
    IN IF errorRate >= errorRateThreshold
       THEN createAlert(st,
                [type |-> "error_rate",
                 severity |-> IF errorRate >= errorRateThreshold * 2 THEN "critical"
                              ELSE "warning",
                 title |-> "High Error Rate Detected",
                 message |-> <<"Error rate", errorRate, errorRateThreshold>>,
                 metadata |-> [errorRate |-> errorRate, threshold |-> errorRateThreshold]])
       ELSE [st EXCEPT !.ret = Null]

\* Mutant of checkResponseTime: a p95 equal to the threshold alerts too.
checkResponseTimeAtThreshold(st) ==
    LET summary == getSummary
    IN IF summary.total > 0 /\ summary.p95DurationMs >= responseTimeThresholdMs
       THEN createAlert(st,
                [type |-> "response_time", severity |-> "warning",
                 title |-> "Slow Response Times Detected",
                 message |-> <<"P95 response time", summary.p95DurationMs,
                               responseTimeThresholdMs>>,
                 metadata |-> [p95 |-> summary.p95DurationMs,
                               p99 |-> summary.p99DurationMs,
                               avg |-> summary.averageDurationMs,
                               threshold |-> responseTimeThresholdMs]])
       ELSE [st EXCEPT !.ret = Null]

\* AlertingService.checkResponseTime, from state st
checkResponseTime(st) ==
    LET summary == getSummary
    IN IF summary.total > 0 /\ summary.p95DurationMs > responseTimeThresholdMs
       THEN createAlert(st,
                [type |-> "response_time", severity |-> "warning",
                 title |-> "Slow Response Times Detected",
                 message |-> <<"P95 response time", summary.p95DurationMs,
                               responseTimeThresholdMs>>,
                 metadata |-> [p95 |-> summary.p95DurationMs,
                               p99 |-> summary.p99DurationMs,
                               avg |-> summary.averageDurationMs,
                               threshold |-> responseTimeThresholdMs]])
       ELSE [st EXCEPT !.ret = Null]

\* AlertingService.start: a new interval each time it is called; the field
\* keeps the last one only.
Start ==
    /\ liveTimers' = liveTimers \cup {nextTimerId}
    /\ checkInterval' = Some(nextTimerId)
    /\ nextTimerId' = nextTimerId + 1
    /\ last' = Call("start", Null, TRUE, Null)
    /\ UNCHANGED <<now, traceCfg, traceVars, metricVars, alertCfg, emailSettled, alertVars, exportVars,
                   checkCfg, requests, frontVars, errorLog, errorCalls>>

\* AlertingService.stop: clears the interval the field holds, if any.
Stop ==
    /\ liveTimers' = IF checkInterval = Null THEN liveTimers
                     ELSE liveTimers \ {checkInterval[1]}
    /\ checkInterval' = Null
    /\ last' = Call("stop", Null, checkInterval # Null, Null)
    /\ UNCHANGED <<now, traceCfg, traceVars, metricVars, alertCfg, emailSettled, alertVars, exportVars,
                   checkCfg, requests, frontVars, errorLog, errorCalls, nextTimerId>>

\* The callback of setInterval(() => this.runChecks(), 30_000) of timer t:
\* AlertingService.runChecks, checkErrorRate then checkResponseTime.
RunChecks(t) ==
    /\ t \in liveTimers
    /\ LET st1 == checkErrorRate(AlertState)
           st2 == checkResponseTime(st1)
           e1 == IF st1.ret = Null THEN emitted
                 ELSE SetLast(emitted, <<st1.ret[1].type, st1.ret[1].severity>>, now)
           e2 == IF st2.ret = Null THEN e1
                 ELSE SetLast(e1, <<st2.ret[1].type, st2.ret[1].severity>>, now)
       IN /\ alerts' = st2.alerts
          /\ lastAlertTime' = st2.lastAlertTime
          /\ nextAlertId' = st2.nextAlertId
          /\ emails' = st2.emails
          /\ emitted' = e2
          /\ last' = Call("runChecks", <<t>>, st1.ret # Null \/ st2.ret # Null,
                          <<st1.ret, st2.ret>>)
    /\ UNCHANGED <<now, alertCfg, emailSettled, notAlerting>>

\* ------------------------------------------------------------------ log exporter
\* The request flush() sends: the records of the buffer, and the state of the
\* fetch and of the promise flush() returned.
Bulk(docs) == [docs |-> docs, response |-> "pending", promise |-> "pending"]

Responses == {"ok", "non2xx", "rejected"}

\* Mutant of flush: the newest record stays in the buffer.
flushKeepsNewest(buf, sent) ==
    IF Len(buf) = 0 THEN [buffer |-> buf, bulks |-> sent]
    ELSE [buffer |-> <<buf[Len(buf)]>>, bulks |-> Append(sent, Bulk(buf))]

\* ElasticsearchTransport.flush, up to its await: the buffer is copied and
\* emptied and one request carries the copy; nothing happens on an empty buffer.
flush(buf, sent) ==
    IF Len(buf) = 0 THEN [buffer |-> buf, bulks |-> sent]
    ELSE [buffer |-> << >>, bulks |-> Append(sent, Bulk(buf))]

\* Mutant of Log: a record logged while a request is in flight joins it.
LogJoinsInFlight(info) ==
    LET doc == [id |-> nextDocId, message |-> info]
        pending == {i \in 1..Len(bulks) : bulks[i].response = "pending"}
        i == CHOOSE j \in pending : \A k \in pending : k <= j
        pushed == Append(buffer, doc)
        full == Len(pushed) >= bufferLimit
        after == IF full THEN flush(pushed, bulks) ELSE [buffer |-> pushed, bulks |-> bulks]
    IN /\ nextDocId' = nextDocId + 1
       /\ buffer' = IF pending = {} THEN after.buffer ELSE buffer
       /\ bulks' = IF pending = {} THEN after.bulks
                   ELSE [bulks EXCEPT ![i].docs = Append(bulks[i].docs, doc)]
       /\ effects' = IF full THEN <<"push", "flush", "callback">> ELSE <<"push", "callback">>
       /\ last' = Call("log", <<doc.id>>, full, Some("callback"))
       /\ UNCHANGED <<now, flushTimer, consoleErrors, shipSettled, notExport>>

\* Mutant of Log: the flush waits until the buffer exceeds the limit.
LogFlushesAbove(info) ==
    LET doc == [id |-> nextDocId, message |-> info]
        pushed == Append(buffer, doc)
        full == Len(pushed) > bufferLimit
        after == IF full THEN flush(pushed, bulks) ELSE [buffer |-> pushed, bulks |-> bulks]
    IN /\ nextDocId' = nextDocId + 1
       /\ buffer' = after.buffer
       /\ bulks' = after.bulks
       /\ effects' = IF full THEN <<"push", "flush", "callback">> ELSE <<"push", "callback">>
       /\ last' = Call("log", <<doc.id>>, full, Some("callback"))
       /\ UNCHANGED <<now, flushTimer, consoleErrors, shipSettled, notExport>>

\* ElasticsearchTransport.log
Log(info) ==
    LET doc == [id |-> nextDocId, message |-> info]
        pushed == Append(buffer, doc)
        full == Len(pushed) >= bufferLimit
        after == IF full THEN flush(pushed, bulks) ELSE [buffer |-> pushed, bulks |-> bulks]
    IN /\ nextDocId' = nextDocId + 1
       /\ buffer' = after.buffer
       /\ bulks' = after.bulks
       /\ effects' = IF full THEN <<"push", "flush", "callback">> ELSE <<"push", "callback">>
       /\ last' = Call("log", <<doc.id>>, full, Some("callback"))
       /\ UNCHANGED <<now, flushTimer, consoleErrors, shipSettled, notExport>>

\* The callback of setInterval(() => this.flush(), 5000): it runs while the
\* interval has not been cleared.
FlushInterval ==
    /\ flushTimer = "live"
    /\ buffer' = flush(buffer, bulks).buffer
    /\ bulks' = flush(buffer, bulks).bulks
    /\ effects' = <<"flush">>
    /\ last' = Call("flushInterval", Null, Len(buffer) # 0, Null)
    /\ UNCHANGED <<now, nextDocId, flushTimer, consoleErrors, shipSettled, notExport>>

\* Mutant of Close: the interval is left running.
CloseKeepsTimer ==
    /\ flushTimer' = flushTimer
    /\ buffer' = flush(buffer, bulks).buffer
    /\ bulks' = flush(buffer, bulks).bulks
    /\ effects' = <<"clearInterval", "flush">>
    /\ last' = Call("close", Null, Len(buffer) # 0, Null)
    /\ UNCHANGED <<now, nextDocId, consoleErrors, shipSettled, notExport>>

\* ElasticsearchTransport.close: clearInterval, then flush.
Close ==
    /\ flushTimer' = "cleared"
    /\ buffer' = flush(buffer, bulks).buffer
    /\ bulks' = flush(buffer, bulks).bulks
    /\ effects' = <<"clearInterval", "flush">>
    /\ last' = Call("close", Null, Len(buffer) # 0, Null)
    /\ UNCHANGED <<now, nextDocId, consoleErrors, shipSettled, notExport>>

\* Mutant of FlushSettles: the records of a failed request go back into the
\* buffer.
FlushSettlesRebuffers(i, response) ==
    /\ bulks[i].response = "pending"
    /\ bulks' = [bulks EXCEPT ![i].response = response, ![i].promise = "resolved"]
    /\ buffer' = IF response = "ok" THEN buffer ELSE bulks[i].docs \o buffer
    /\ consoleErrors' = IF response = "ok" THEN consoleErrors ELSE consoleErrors + 1
    /\ effects' = IF response = "ok" THEN << >> ELSE <<"console.error">>
    /\ last' = Call("flushSettles", <<i>>, response = "ok", Null)
    /\ UNCHANGED <<now, nextDocId, flushTimer, shipSettled, notExport>>

\* The rest of flush, after its await: the fetch of request i answers 2xx
\* ("ok"), answers another status ("non2xx": response.ok is false) or rejects;
\* both failures write one console.error line, the catch swallows the
\* rejection, and the promise of flush resolves.
FlushSettles(i, response) ==
    /\ bulks[i].response = "pending"
    /\ bulks' = [bulks EXCEPT ![i].response = response, ![i].promise = "resolved"]
    /\ buffer' = buffer
    /\ consoleErrors' = IF response = "ok" THEN consoleErrors ELSE consoleErrors + 1
    /\ effects' = IF response = "ok" THEN << >> ELSE <<"console.error">>
    /\ last' = Call("flushSettles", <<i>>, response = "ok", Null)
    /\ UNCHANGED <<now, nextDocId, flushTimer, shipSettled, notExport>>

\* Mutant of ShipSettles: a span whose export failed is active again.
ShipSettlesRestores(i, response) ==
    /\ i \in 1..Len(shipped)
    /\ \A r \in shipSettled : r.request # i
    /\ shipSettled' = shipSettled \cup {[request |-> i, response |-> response]}
    /\ activeSpans' = IF response = "rejected"
                       THEN MapSet(activeSpans, shipped[i].spanId, shipped[i])
                       ELSE activeSpans
    /\ last' = Call("shipSettles", <<i>>, response = "ok", Null)
    /\ UNCHANGED <<now, traceCfg, nextTraceId, nextSpanId, completedSpans, shipped,
                   unsampled, metricVars, alertCfg, emailSettled, alertVars, buffer, nextDocId, bulks,
                   flushTimer, effects, consoleErrors, checkCfg, requests, frontVars, checkVars>>

\* The rest of TracingService.shipSpan, after its await: the fetch of the i-th
\* shipped span answers (the status is not looked at) or rejects, and the
\* catch swallows the rejection.
ShipSettles(i, response) ==
    /\ i \in 1..Len(shipped)
    /\ \A r \in shipSettled : r.request # i
    /\ shipSettled' = shipSettled \cup {[request |-> i, response |-> response]}
    /\ activeSpans' = activeSpans
    /\ last' = Call("shipSettles", <<i>>, response = "ok", Null)
    /\ UNCHANGED <<now, traceCfg, nextTraceId, nextSpanId, completedSpans, shipped,
                   unsampled, metricVars, alertCfg, emailSettled, alertVars, buffer, nextDocId, bulks,
                   flushTimer, effects, consoleErrors, checkCfg, requests, frontVars, checkVars>>

\* ------------------------------------------------------------------ employee order
\* The employees of the directory and an id that is not one of them.
EmployeeIds == <<1, 2, 3>>
UnknownId == 9

\* Array.prototype.findIndex, 1-based; 0 when nothing is found.
findIndex(arr, id) ==
    IF \E i \in 1..Len(arr) : arr[i] = id
    THEN CHOOSE i \in 1..Len(arr) : arr[i] = id /\ \A j \in 1..(i - 1) : arr[j] # id
    ELSE 0

\* arrayMove of @dnd-kit/sortable: the element at from is taken out and
\* put back at to.
arrayMove(arr, from, to) ==
    LET rest == SubSeq(arr, 1, from - 1) \o SubSeq(arr, from + 1, Len(arr))
    IN SubSeq(rest, 1, to - 1) \o <<arr[from]>> \o SubSeq(rest, to, Len(rest))

\* queryClient.getQueryData(EMPLOYEES_QUERY_KEY) ?? []
CachedEmployees == IF employeesCache = Null THEN << >> ELSE employeesCache[1]

\* new QueryClient(), the employees query loaded or not yet; no mutation.
InitFrontVars ==
    /\ employeesCache = Null
    /\ serverOrder = EmployeeIds
    /\ refetching = FALSE
    /\ invalidated = 0
    /\ mutations = << >>

\* mutate({activeId, overId}): onMutate runs up to its await; cancelQueries
\* drops the fetch in flight.
Mutate(activeId, overId) ==
    /\ mutations' = Append(mutations,
                           [pc |-> "onMutate", activeId |-> activeId, overId |-> overId,
                            context |-> Null, before |-> Null, payload |-> << >>,
                            result |-> "pending"])
    /\ refetching' = FALSE
    /\ last' = Call("mutate", <<activeId, overId>>, TRUE, Null)
    /\ UNCHANGED <<employeesCache, serverOrder, invalidated, notFront>>

\* Mutant of OnMutate: the context keeps the order after the optimistic update.
OnMutateKeepsReordered(m) ==
    LET previous == CachedEmployees
        activeIndex == findIndex(previous, mutations[m].activeId)
        overIndex == findIndex(previous, mutations[m].overId)
        reordered == IF activeIndex # 0 /\ overIndex # 0
                     THEN arrayMove(previous, activeIndex, overIndex) ELSE previous
    IN /\ mutations[m].pc = "onMutate"
       /\ employeesCache' = IF activeIndex # 0 /\ overIndex # 0
                            THEN Some(arrayMove(previous, activeIndex, overIndex))
                            ELSE employeesCache
       /\ mutations' = [mutations EXCEPT ![m].pc = "pending",
                                         ![m].context = Some([previous |-> reordered]),
                                         ![m].before = employeesCache]
       /\ last' = Call("onMutate", m, activeIndex # 0 /\ overIndex # 0, Null)
       /\ UNCHANGED <<serverOrder, refetching, invalidated, notFront>>

\* onMutate after its await: the order in the cache is kept as the context
\* and the optimistic order is written. The field before is history: the
\* cache as it was when the optimistic update was applied.
OnMutate(m) ==
    LET previous == CachedEmployees
        activeIndex == findIndex(previous, mutations[m].activeId)
        overIndex == findIndex(previous, mutations[m].overId)
    IN /\ mutations[m].pc = "onMutate"
       /\ employeesCache' = IF activeIndex # 0 /\ overIndex # 0
                            THEN Some(arrayMove(previous, activeIndex, overIndex))
                            ELSE employeesCache
       /\ mutations' = [mutations EXCEPT ![m].pc = "pending",
                                         ![m].context = Some([previous |-> previous]),
                                         ![m].before = employeesCache]
       /\ last' = Call("onMutate", m, activeIndex # 0 /\ overIndex # 0, Null)
       /\ UNCHANGED <<serverOrder, refetching, invalidated, notFront>>

\* reordered.map((emp, i) => ({ id: emp.id, newIndex: i }))
OrderPayload(reordered) ==
    [i \in 1..Len(reordered) |-> [id |-> reordered[i], newIndex |-> i - 1]]

\* Mutant of MutationFn: the payload is built from the order the context holds.
MutationFnSendsPrevious(m) ==
    /\ mutations[m].pc = "pending"
    /\ mutations' = [mutations EXCEPT
                        ![m].pc = "inflight",
                        ![m].payload = OrderPayload(mutations[m].context[1].previous)]
    /\ last' = Call("mutationFn", m, TRUE, Null)
    /\ UNCHANGED <<employeesCache, serverOrder, refetching, invalidated, notFront>>

\* mutationFn, which the mutation calls once onMutate has returned: the
\* payload is built from the order in the cache and sent.
MutationFn(m) ==
    /\ mutations[m].pc = "pending"
    /\ mutations' = [mutations EXCEPT ![m].pc = "inflight",
                                      ![m].payload = OrderPayload(CachedEmployees)]
    /\ last' = Call("mutationFn", m, TRUE, Null)
    /\ UNCHANGED <<employeesCache, serverOrder, refetching, invalidated, notFront>>

\* The order the API holds once it has applied a payload.
AppliedOrder(payload) ==
    [i \in 1..Len(payload) |->
        payload[CHOOSE k \in 1..Len(payload) : payload[k].newIndex = i - 1].id]

\* updateEmployeeOrder resolves: the API has taken the order of the payload.
ApiResolves(m) ==
    /\ mutations[m].pc = "inflight"
    /\ serverOrder' = IF mutations[m].payload = << >> THEN serverOrder
                      ELSE AppliedOrder(mutations[m].payload)
    /\ mutations' = [mutations EXCEPT ![m].pc = "settled", ![m].result = "success"]
    /\ last' = Call("updateEmployeeOrder", m, TRUE, Null)
    /\ UNCHANGED <<employeesCache, refetching, invalidated, notFront>>

\* Mutant of ApiRejects: onError leaves the cache as it is.
ApiRejectsKeepsCache(m) ==
    /\ mutations[m].pc = "inflight"
    /\ mutations' = [mutations EXCEPT ![m].pc = "settled", ![m].result = "error"]
    /\ last' = Call("onError", m, FALSE, Null)
    /\ UNCHANGED <<employeesCache, serverOrder, refetching, invalidated, notFront>>

\* updateEmployeeOrder rejects and onError runs: the cache is set to the
\* order the context holds.
ApiRejects(m) ==
    /\ mutations[m].pc = "inflight"
    /\ employeesCache' = IF mutations[m].context # Null
                         THEN Some(mutations[m].context[1].previous)
                         ELSE employeesCache
    /\ mutations' = [mutations EXCEPT ![m].pc = "settled", ![m].result = "error"]
    /\ last' = Call("onError", m, mutations[m].context # Null, Null)
    /\ UNCHANGED <<serverOrder, refetching, invalidated, notFront>>

\* onSettled: invalidateQueries marks the employees query stale and starts
\* a fetch of it.
OnSettled(m) ==
    /\ mutations[m].pc = "settled"
    /\ invalidated' = invalidated + 1
    /\ refetching' = TRUE
    /\ mutations' = [mutations EXCEPT ![m].pc = "done"]
    /\ last' = Call("onSettled", m, TRUE, Null)
    /\ UNCHANGED <<employeesCache, serverOrder, notFront>>

\* fetchEmployees resolves: the cache takes the order the API holds.
FetchResolves ==
    /\ refetching
    /\ employeesCache' = Some(serverOrder)
    /\ refetching' = FALSE
    /\ last' = Call("fetchEmployees", Null, TRUE, Some(serverOrder))
    /\ UNCHANGED <<serverOrder, invalidated, mutations, notFront>>

\* ------------------------------------------------------------------ specifications
ReqIds == 1..MaxRequests

\* A request no middleware has seen: `end` holds what wraps res.end, the
\* innermost wrapper first, `trail` what was done for the request, in order.
NoRequest ==
    [pc |-> "none", spanId |-> Null, end |-> << >>, startDate |-> 0, statusCode |-> 0,
     headersSent |-> Null, trail |-> << >>]

InitRequestVars == requests = [q \in ReqIds |-> NoRequest]

InitTraceCfg ==
    /\ enabled \in BOOLEAN
    /\ sampleRate \in SampleRates
    /\ esEnabled \in BOOLEAN

InitTraceVars ==
    /\ nextTraceId = 1
    /\ nextSpanId = 1
    /\ activeSpans = << >>
    /\ completedSpans = << >>
    /\ shipped = << >>
    /\ unsampled = {}

InitMetricVars ==
    /\ requestMetrics = << >>
    /\ dbMetrics = [count |-> 0, totalDurationMs |-> 0, slowCount |-> 0]

InitAlertVars ==
    /\ alerts = << >>
    /\ lastAlertTime = << >>
    /\ nextAlertId = 1
    /\ emails = << >>
    /\ emailSettled = {}
    /\ emitted = << >>

\* The thresholds of the scheduled checks: two errors a minute, ten
\* milliseconds.
InitCheckCfg ==
    /\ errorRateThreshold = 2
    /\ responseTimeThresholdMs = 10

\* new MetricsCollector() and new AlertingService(): no error, no timer.
InitCheckVars ==
    /\ errorLog = << >>
    /\ errorCalls = << >>
    /\ checkInterval = Null
    /\ liveTimers = {}
    /\ nextTimerId = 1

\* new ElasticsearchTransport(): an empty buffer and the interval set.
InitExportVars ==
    /\ buffer = << >>
    /\ nextDocId = 1
    /\ bulks = << >>
    /\ flushTimer = "live"
    /\ effects = << >>
    /\ consoleErrors = 0
    /\ shipSettled = {}

\* Span ids a caller may pass: every generated one, and 0.
SpanIdArgs == 0..(nextSpanId - 1)
\* The trace a caller continues and its parent span: the latest generated ones
\* (0, ids from outside, when none was generated yet).
TraceIdArgs == {nextTraceId - 1}
ParentIdArgs == {nextSpanId - 1}

\* The tracing service: the life cycle of spans. endSpan is called on any id
\* with status ok, and with status error on the active ones.
InitTracing ==
    /\ now = 1
    /\ last = NoCall
    /\ InitTraceCfg
    /\ InitTraceVars
    /\ InitMetricVars
    /\ cooldownMs = 0
    /\ emailEnabled = FALSE
    /\ InitAlertVars
    /\ InitExportVars
    /\ InitCheckCfg
    /\ InitCheckVars
    /\ InitFrontVars
    /\ InitRequestVars

NextTracing ==
    \/ Tick(MaxTime)
    \/ /\ nextSpanId <= MaxSpans
       /\ \E o \in OperationNames, t \in StartTags, r \in RandomDraws : StartTrace(o, t, r)
    \/ /\ nextSpanId <= MaxSpans
       /\ \E tr \in TraceIdArgs, p \in ParentIdArgs, o \in OperationNames, t \in StartTags :
             StartSpan(tr, p, o, t)
    \/ \E id \in SpanIdArgs, st \in SpanStatuses :
          /\ st = "error" => MapHas(activeSpans, id)
          /\ EndSpan(id, st, TagA(3))

SpecTracing == InitTracing /\ [][NextTracing]_vars

\* The tracing service with tracing on and every trace sampled, at one instant:
\* the data (tags, logs) of spans.
InitSpanData ==
    /\ now = 1
    /\ last = NoCall
    /\ enabled = TRUE
    /\ sampleRate = 100
    /\ esEnabled = FALSE
    /\ InitTraceVars
    /\ InitMetricVars
    /\ cooldownMs = 0
    /\ emailEnabled = FALSE
    /\ InitAlertVars
    /\ InitExportVars
    /\ InitCheckCfg
    /\ InitCheckVars
    /\ InitFrontVars
    /\ InitRequestVars

NextSpanData ==
    \/ /\ nextSpanId <= MaxDataSpans
       /\ \E o \in OperationNames, t \in StartTags, r \in RandomDraws : StartTrace(o, t, r)
    \/ /\ nextSpanId <= MaxDataSpans
       /\ \E tr \in TraceIdArgs, p \in ParentIdArgs, o \in OperationNames, t \in StartTags :
             StartSpan(tr, p, o, t)
    \/ \E id \in SpanIdArgs, t \in EndTags : EndSpan(id, "ok", t)
    \/ \E id \in SpanIdArgs, m \in LogMessages :
          /\ MapHas(activeSpans, id) => Len(MapGet(activeSpans, id).logs) < MaxLogs
          /\ AddSpanLog(id, m)
    \/ \E id \in SpanIdArgs, t \in AddTags : AddSpanTags(id, t)

SpecSpanData == InitSpanData /\ [][NextSpanData]_vars

\* The alerting service: createAlert called from anywhere, with any of these
\* parameters, at any instant.
AlertingParams ==
    {AlertParams("error_rate", "warning"), AlertParams("error_rate", "critical"),
     AlertParams("custom", "warning")}

InitAlerting ==
    /\ now = 1
    /\ last = NoCall
    /\ enabled = FALSE
    /\ sampleRate = 0
    /\ esEnabled = FALSE
    /\ InitTraceVars
    /\ InitMetricVars
    /\ cooldownMs \in 0..MaxCooldown
    /\ emailEnabled \in BOOLEAN
    /\ InitAlertVars
    /\ InitExportVars
    /\ InitCheckCfg
    /\ InitCheckVars
    /\ InitFrontVars
    /\ InitRequestVars

NextAlerting ==
    \/ Tick(MaxAlertTime)
    \/ /\ nextAlertId <= MaxAlertIds
       /\ \E p \in AlertingParams : CreateAlert(p)
    \/ \E id \in 0..(nextAlertId - 1) : AcknowledgeAlert(id)

SpecAlerting == InitAlerting /\ [][NextAlerting]_vars

\* The three bounded stores side by side, at one instant: spans are started and
\* ended without tags (the oldest active one first; SpecTracing ends them in any
\* order),
\* requests recorded, alerts created under distinct keys.
StoreMetrics ==
    {[method |-> m, path |-> p, statusCode |-> c, durationMs |-> d, timestamp |-> now] :
        m \in Methods, p \in Paths, c \in {200}, d \in {10, 20}}
StoreParams ==
    {AlertParams("error_rate", "warning"), AlertParams("error_rate", "critical"),
     AlertParams("response_time", "warning"), AlertParams("custom", "info")}

InitStores ==
    /\ now = 1
    /\ last = NoCall
    /\ enabled = TRUE
    /\ sampleRate = 100
    /\ esEnabled = FALSE
    /\ InitTraceVars
    /\ InitMetricVars
    /\ cooldownMs = 1
    /\ emailEnabled = FALSE
    /\ InitAlertVars
    /\ InitExportVars
    /\ InitCheckCfg
    /\ InitCheckVars
    /\ InitFrontVars
    /\ InitRequestVars

NextStores ==
    \/ /\ nextSpanId <= MaxStoreSpans
       /\ \E o \in OperationNames, t \in StartTags, r \in RandomDraws : StartTrace(o, t, r)
    \/ activeSpans # << >> /\ EndSpan(activeSpans[1].spanId, "ok", EmptyTags)
    \/ \E m \in StoreMetrics : RecordRequest(m)
    \/ /\ nextAlertId <= MaxAlertIds
       /\ \E p \in StoreParams : CreateAlert(p)

SpecStores == InitStores /\ [][NextStores]_vars

\* Trace queries: spans of several traces are started over several instants,
\* ended (the oldest active one first) and exported, often enough for the
\* completed store to evict; getTrace is called for every generated trace id
\* and for one never generated (0).
InitTraceQuery ==
    /\ now = 1
    /\ last = NoCall
    /\ enabled = TRUE
    /\ sampleRate = 100
    /\ esEnabled = TRUE
    /\ InitTraceVars
    /\ InitMetricVars
    /\ cooldownMs = 0
    /\ emailEnabled = FALSE
    /\ InitAlertVars
    /\ InitExportVars
    /\ InitCheckCfg
    /\ InitCheckVars
    /\ InitFrontVars
    /\ InitRequestVars

NextTraceQuery ==
    \/ Tick(MaxQueryTime)
    \/ /\ nextSpanId <= MaxQuerySpans
       /\ nextTraceId <= MaxQueryTraces
       /\ \E o \in OperationNames : StartTrace(o, EmptyTags, 0)
    \/ /\ nextSpanId <= MaxQuerySpans
       /\ \E tr \in 1..(nextTraceId - 1), o \in OperationNames :
             StartSpan(tr, nextSpanId - 1, o, EmptyTags)
    \/ activeSpans # << >> /\ EndSpan(activeSpans[1].spanId, "ok", EmptyTags)
    \/ \E tr \in 0..(nextTraceId - 1) : GetTrace(tr)

SpecTraceQuery == InitTraceQuery /\ [][NextTraceQuery]_vars

\* The log exporter: records are logged, the interval fires, the transport is
\* closed (more than once, and logged to afterwards), and every request sent
\* settles in one of the three ways or stays pending.
InitExporter ==
    /\ now = 1
    /\ last = NoCall
    /\ enabled = FALSE
    /\ sampleRate = 0
    /\ esEnabled = TRUE
    /\ InitTraceVars
    /\ InitMetricVars
    /\ cooldownMs = 0
    /\ emailEnabled = FALSE
    /\ InitAlertVars
    /\ InitExportVars
    /\ InitCheckCfg
    /\ InitCheckVars
    /\ InitFrontVars
    /\ InitRequestVars

NextExporter ==
    \/ /\ nextDocId <= MaxDocs
       /\ \E m \in LogMessages : Log(m)
    \/ FlushInterval
    \/ Close
    \/ \E i \in 1..Len(bulks), r \in Responses : FlushSettles(i, r)

SpecExporter == InitExporter /\ [][NextExporter]_vars

\* The same, with the interval firing for as long as it is set.
SpecExporterLive == SpecExporter /\ WF_vars(FlushInterval)

\* Export failures: spans are ended (the oldest active one first) and shipped,
\* failing requests recorded and records logged while the requests to
\* Elasticsearch succeed, fail or stay unanswered.
IsoMetrics ==
    {[method |-> m, path |-> p, statusCode |-> c, durationMs |-> 10, timestamp |-> now] :
        m \in Methods, p \in Paths, c \in {500}}

InitIsolation ==
    /\ now = 1
    /\ last = NoCall
    /\ enabled = TRUE
    /\ sampleRate = 100
    /\ esEnabled = TRUE
    /\ InitTraceVars
    /\ InitMetricVars
    /\ cooldownMs = 0
    /\ emailEnabled = FALSE
    /\ InitAlertVars
    /\ InitExportVars
    /\ InitCheckCfg
    /\ InitCheckVars
    /\ InitFrontVars
    /\ InitRequestVars

NextIsolation ==
    \/ /\ nextSpanId <= MaxIsoSpans
       /\ \E o \in OperationNames : StartTrace(o, EmptyTags, 0)
    \/ activeSpans # << >> /\ EndSpan(activeSpans[1].spanId, "ok", EmptyTags)
    \/ \E i \in 1..Len(shipped), r \in Responses : ShipSettles(i, r)
    \/ \E m \in IsoMetrics : RecordRequest(m)
    \/ /\ nextDocId <= MaxIsoDocs
       /\ \E m \in LogMessages : Log(m)
    \/ FlushInterval
    \/ \E i \in 1..Len(bulks), r \in Responses : FlushSettles(i, r)

SpecIsolation == InitIsolation /\ [][NextIsolation]_vars

\* The scheduled checks: start() and stop() are called in any order and
\* number, every live timer fires, errors and slow or fast requests are
\* recorded, the clock advances.
CheckMetrics ==
    {[method |-> m, path |-> p, statusCode |-> 200, durationMs |-> d, timestamp |-> now] :
        m \in Methods, p \in Paths, d \in {10, 20}}

InitChecks ==
    /\ now = 1
    /\ last = NoCall
    /\ enabled = FALSE
    /\ sampleRate = 0
    /\ esEnabled = FALSE
    /\ InitTraceVars
    /\ InitMetricVars
    /\ cooldownMs = 1
    /\ emailEnabled = FALSE
    /\ InitAlertVars
    /\ InitExportVars
    /\ errorRateThreshold = 1
    /\ responseTimeThresholdMs = 10
    /\ InitCheckVars
    /\ InitFrontVars
    /\ InitRequestVars

NextChecks ==
    \/ Tick(MaxCheckTime)
    \/ nextTimerId <= MaxTimers /\ Start
    \/ Stop
    \/ \E t \in liveTimers : RunChecks(t)
    \/ /\ Len(errorLog) < MaxErrors
       /\ \E m \in ErrorMessages, p \in Paths : RecordError(m, p)
    \/ /\ Len(requestMetrics) < MaxCheckRequests
       /\ \E m \in CheckMetrics : RecordRequest(m)

SpecChecks == InitChecks /\ [][NextChecks]_vars

\* The error-rate check: one timer is started, errors are recorded over
\* several instants, the check fires at any moment, below, at and above the
\* threshold and twice the threshold, inside and outside the cooldown.
InitErrorRate ==
    /\ now = 1
    /\ last = NoCall
    /\ enabled = FALSE
    /\ sampleRate = 0
    /\ esEnabled = FALSE
    /\ InitTraceVars
    /\ InitMetricVars
    /\ cooldownMs = 1
    /\ emailEnabled = FALSE
    /\ InitAlertVars
    /\ InitExportVars
    /\ errorRateThreshold \in {1, 2}
    /\ responseTimeThresholdMs = 10
    /\ InitCheckVars
    /\ InitFrontVars
    /\ InitRequestVars

NextErrorRate ==
    \/ Tick(MaxRateTime)
    \/ checkInterval = Null /\ Start
    \/ \E t \in liveTimers : RunChecks(t)
    \/ /\ Len(errorLog) < MaxRateErrors
       /\ \E m \in ErrorMessages, p \in Paths : RecordError(m, p)

SpecErrorRate == InitErrorRate /\ [][NextErrorRate]_vars

\* The response-time check: one timer is started, requests faster than, as
\* slow as and slower than the threshold are recorded over several instants,
\* and the check fires at any moment, before the first request too.
RespMetrics ==
    {[method |-> m, path |-> p, statusCode |-> 200, durationMs |-> d, timestamp |-> now] :
        m \in Methods, p \in Paths, d \in {5, 10, 20}}

InitResponseTime ==
    /\ now = 1
    /\ last = NoCall
    /\ enabled = FALSE
    /\ sampleRate = 0
    /\ esEnabled = FALSE
    /\ InitTraceVars
    /\ InitMetricVars
    /\ cooldownMs = 1
    /\ emailEnabled = FALSE
    /\ InitAlertVars
    /\ InitExportVars
    /\ InitCheckCfg
    /\ InitCheckVars
    /\ InitFrontVars
    /\ InitRequestVars

NextResponseTime ==
    \/ Tick(MaxRespTime)
    \/ checkInterval = Null /\ Start
    \/ \E t \in liveTimers : RunChecks(t)
    \/ /\ Len(requestMetrics) < MaxRespRequests
       /\ \E m \in RespMetrics : RecordRequest(m)

SpecResponseTime == InitResponseTime /\ [][NextResponseTime]_vars

\* The life of stored alerts: alerts are created by callers and by the
\* scheduled checks, acknowledged (known ids and unknown ones, more than
\* once) and evicted.
LifeParams == {AlertParams("custom", "info")}

InitAlertLife ==
    /\ now = 1
    /\ last = NoCall
    /\ enabled = FALSE
    /\ sampleRate = 0
    /\ esEnabled = FALSE
    /\ InitTraceVars
    /\ InitMetricVars
    /\ cooldownMs = 1
    /\ emailEnabled = FALSE
    /\ InitAlertVars
    /\ InitExportVars
    /\ errorRateThreshold = 1
    /\ responseTimeThresholdMs = 10
    /\ InitCheckVars
    /\ InitFrontVars
    /\ InitRequestVars

NextAlertLife ==
    \/ Tick(MaxLifeTime)
    \/ checkInterval = Null /\ Start
    \/ /\ errorLog = << >>
       /\ \E m \in ErrorMessages, p \in Paths : RecordError(m, p)
    \/ /\ nextAlertId <= MaxAlertIds
       /\ \E t \in liveTimers : RunChecks(t)
    \/ /\ nextAlertId <= MaxAlertIds
       /\ \E p \in LifeParams : CreateAlert(p)
    \/ \E id \in 0..(nextAlertId - 1) : AcknowledgeAlert(id)

SpecAlertLife == InitAlertLife /\ [][NextAlertLife]_vars

\* Alert queries: the same life, with the store read through getAlerts. The
\* limit is the one a caller passes or the route parses from the query
\* string (parseInt(req.query.limit, 10) || 50).
AlertFilters ==
    {AlertFilter(s, t, a, l) : s \in {Null, Some("warning")}, t \in {Null, Some("custom")},
                               a \in {Null, Some(TRUE), Some(FALSE)},
                               l \in {Null} \cup {Some(n) : n \in -1..MaxLimit}}

NextAlertQuery ==
    \/ NextAlertLife
    \/ \E f \in AlertFilters : GetAlerts(f)

SpecAlertQuery == InitAlertLife /\ [][NextAlertQuery]_vars

\* The error window: errors are recorded and the rate is read while time
\* passes beyond the window and beyond the retention of the error log.
InitErrorWindow ==
    /\ now = 1
    /\ last = NoCall
    /\ enabled = FALSE
    /\ sampleRate = 0
    /\ esEnabled = FALSE
    /\ InitTraceVars
    /\ InitMetricVars
    /\ cooldownMs = 1
    /\ emailEnabled = FALSE
    /\ InitAlertVars
    /\ InitExportVars
    /\ InitCheckCfg
    /\ InitCheckVars
    /\ InitFrontVars
    /\ InitRequestVars

NextErrorWindow ==
    \/ Tick(MaxWindowTime)
    \/ /\ Len(errorCalls) < MaxWindowErrors
       /\ \E m \in ErrorMessages, p \in Paths : RecordError(m, p)
    \/ GetErrorRate

SpecErrorWindow == InitErrorWindow /\ [][NextErrorWindow]_vars

\* Percentiles: the function is applied to ascending lists of durations,
\* the empty one included, long enough for p95, p99 and the maximum to be
\* three different entries.
SortedDurations ==
    {[i \in 1..(a + b + c) |-> IF i <= a THEN 10 ELSE IF i <= a + b THEN 20 ELSE 30] :
        a \in 0..MaxPctLen, b \in 0..MaxPctLen, c \in 0..1}

Percentiles == {1, 50, 95, 99, 100}

NextPercentile ==
    /\ last = NoCall
    /\ \E sorted \in SortedDurations, p \in Percentiles :
          Len(sorted) <= MaxPctLen /\ Percentile(sorted, p)

SpecPercentile == InitErrorWindow /\ [][NextPercentile]_vars

\* The trace route: spans of a trace start, end in any order and are
\* looked up through GET /traces/:traceId while time passes.
InitTraceRoute ==
    /\ now = 1
    /\ last = NoCall
    /\ enabled = TRUE
    /\ sampleRate = 100
    /\ esEnabled = FALSE
    /\ InitTraceVars
    /\ InitMetricVars
    /\ cooldownMs = 0
    /\ emailEnabled = FALSE
    /\ InitAlertVars
    /\ InitExportVars
    /\ InitCheckCfg
    /\ InitCheckVars
    /\ InitFrontVars
    /\ InitRequestVars

NextTraceRoute ==
    \/ Tick(MaxRouteTime)
    \/ /\ nextSpanId <= MaxRouteSpans
       /\ nextTraceId <= MaxRouteTraces
       /\ \E o \in OperationNames : StartTrace(o, EmptyTags, 0)
    \/ /\ nextSpanId <= MaxRouteSpans
       /\ \E tr \in 1..(nextTraceId - 1), o \in OperationNames :
             StartSpan(tr, nextSpanId - 1, o, EmptyTags)
    \/ \E i \in 1..Len(activeSpans) : EndSpan(activeSpans[i].spanId, "ok", EmptyTags)
    \/ \E tr \in 0..(nextTraceId - 1) : GetTraceRoute(tr)

SpecTraceRoute == InitTraceRoute /\ [][NextTraceRoute]_vars

\* The health route: errors are recorded and GET /health is answered while
\* time passes.
NextHealth ==
    \/ NextErrorWindow
    \/ Health

SpecHealth == InitErrorWindow /\ [][NextHealth]_vars

\* Reordering employees: rows are dragged (also while an earlier reorder is
\* in flight, and before the employees are loaded), the API accepts or
\* rejects each reorder, and the employees query is fetched.
ReorderArgs == {<<1, 3>>, <<2, 1>>, <<1, UnknownId>>}

InitReorder ==
    /\ now = 1
    /\ last = NoCall
    /\ enabled = FALSE
    /\ sampleRate = 0
    /\ esEnabled = FALSE
    /\ InitTraceVars
    /\ InitMetricVars
    /\ cooldownMs = 1
    /\ emailEnabled = FALSE
    /\ InitAlertVars
    /\ InitExportVars
    /\ InitCheckCfg
    /\ InitCheckVars
    /\ employeesCache \in {Null, Some(EmployeeIds)}
    /\ serverOrder = EmployeeIds
    /\ refetching = (employeesCache = Null)
    /\ invalidated = 0
    /\ mutations = << >>
    /\ InitRequestVars

\* Between the return of onMutate and the call of mutationFn the mutation
\* only awaits resolved promises: other continuations may run, but no
\* network response and no user event arrives.
NoneHandedOver == \A m \in 1..Len(mutations) : mutations[m].pc # "pending"

NextReorder ==
    \/ /\ Len(mutations) < MaxMutations
       /\ NoneHandedOver
       /\ \E a \in ReorderArgs : Mutate(a[1], a[2])
    \/ \E m \in 1..Len(mutations) : OnMutate(m)
    \/ \E m \in 1..Len(mutations) : MutationFn(m)
    \/ NoneHandedOver /\ \E m \in 1..Len(mutations) : ApiResolves(m)
    \/ NoneHandedOver /\ \E m \in 1..Len(mutations) : ApiRejects(m)
    \/ \E m \in 1..Len(mutations) : OnSettled(m)
    \/ NoneHandedOver /\ FetchResolves

SpecReorder == InitReorder /\ [][NextReorder]_vars

\* The cooldown map: alerts of three keys are created and evicted, the
\* check loop is started and stopped, and alerts are acknowledged and
\* listed while their cooldowns run and elapse.
CooldownParams ==
    {AlertParams("custom", "info"), AlertParams("custom", "warning"),
     AlertParams("custom", "critical")}

CooldownFilters == {AlertFilter(Null, Null, Some(TRUE), Null)}

InitCooldown ==
    /\ now = 1
    /\ last = NoCall
    /\ enabled = FALSE
    /\ sampleRate = 0
    /\ esEnabled = FALSE
    /\ InitTraceVars
    /\ InitMetricVars
    /\ cooldownMs = 2
    /\ emailEnabled = FALSE
    /\ InitAlertVars
    /\ InitExportVars
    /\ InitCheckCfg
    /\ InitCheckVars
    /\ InitFrontVars
    /\ InitRequestVars

NextCooldown ==
    \/ Tick(MaxCoolTime)
    \/ /\ nextAlertId <= MaxCoolAlerts
       /\ \E p \in CooldownParams : CreateAlert(p)
    \/ checkInterval = Null /\ nextTimerId <= MaxCoolTimers /\ Start
    \/ checkInterval # Null /\ Stop
    \/ \E id \in 1..(nextAlertId - 1) : AcknowledgeAlert(id)
    \/ \E f \in CooldownFilters : GetAlerts(f)

SpecCooldown == InitCooldown /\ [][NextCooldown]_vars

\* Notifications: alerts are created and acknowledged while their e-mails
\* are sent, fail, or stay pending.
EmailOutcomes == {"sent", "failed"}

NotifyParams == {AlertParams("custom", "warning"), AlertParams("custom", "critical")}

InitNotify ==
    /\ now = 1
    /\ last = NoCall
    /\ enabled = FALSE
    /\ sampleRate = 0
    /\ esEnabled = FALSE
    /\ InitTraceVars
    /\ InitMetricVars
    /\ cooldownMs = 1
    /\ emailEnabled = TRUE
    /\ InitAlertVars
    /\ InitExportVars
    /\ InitCheckCfg
    /\ InitCheckVars
    /\ InitFrontVars
    /\ InitRequestVars

NextNotify ==
    \/ Tick(MaxNotifyTime)
    \/ /\ nextAlertId <= MaxNotifyAlerts
       /\ \E p \in NotifyParams : CreateAlert(p)
    \/ \E i \in 1..Len(emails), o \in EmailOutcomes : EmailSettles(i, o)

SpecNotify == InitNotify /\ [][NextNotify]_vars

\* The collector: requests, database queries and errors are recorded while
\* time passes beyond the retention of the error log.
CollectorMetrics ==
    {[method |-> "GET", path |-> "/x", statusCode |-> 200, durationMs |-> 10, timestamp |-> now],
     [method |-> "POST", path |-> "/x", statusCode |-> 503, durationMs |-> 20, timestamp |-> now]}

NextCollector ==
    \/ Tick(MaxCollectorTime)
    \/ /\ Len(errorCalls) < MaxCollectorErrors
       /\ \E m \in ErrorMessages, p \in Paths : RecordError(m, p)
    \/ /\ Len(requestMetrics) < MaxCollectorRequests
       /\ \E metric \in CollectorMetrics : RecordRequest(metric)
    \/ /\ dbMetrics.count < MaxDbQueries
       /\ \E d \in {10, 2 * slowQueryThresholdMs} : RecordDatabaseQuery(d)

SpecCollector == InitErrorWindow /\ [][NextCollector]_vars

\* Summaries are taken while requests are recorded beyond the cap of the
\* metric buffer and errors are recorded.
NextSummary ==
    \/ Tick(MaxSummaryTime)
    \/ /\ Len(errorCalls) < MaxSummaryErrors
       /\ \E m \in ErrorMessages, p \in Paths : RecordError(m, p)
    \/ \E metric \in CollectorMetrics : RecordRequest(metric)
    \/ GetSummary

SpecSummary == InitErrorWindow /\ [][NextSummary]_vars

\* Header propagation: requests arrive with or without a traceparent header,
\* well formed or not; parseTraceparent and toTraceparent are also called
\* directly, parseTraceparent also on the header text just produced.
ValidTraceId == Repeat("a", TraceIdLen)
ValidParentId == Repeat("b", SpanIdLen)
TraceIdFields ==
    {ValidTraceId, Repeat("a", TraceIdLen - 1), Repeat("a", TraceIdLen + 1),
     Repeat("g", TraceIdLen), Repeat("a", TraceIdLen - 1) \o <<"g">>, << >>}
ParentIdFields ==
    {ValidParentId, Repeat("b", SpanIdLen - 1), Repeat("b", SpanIdLen + 1),
     Repeat("g", SpanIdLen), << >>}

\* Array.prototype.join('-') of the fields of a header.
RECURSIVE JoinDash(_)
JoinDash(fields) ==
    IF Len(fields) = 0 THEN << >>
    ELSE IF Len(fields) = 1 THEN fields[1]
    ELSE JoinDash(SubSeq(fields, 1, Len(fields) - 1)) \o <<"-">> \o fields[Len(fields)]

HeaderTexts ==
    {JoinDash(<<<<"0", "0">>, t, ValidParentId, <<"0", "1">>>>) : t \in TraceIdFields}
    \cup {JoinDash(<<<<"0", "0">>, ValidTraceId, p, <<"0", "1">>>>) : p \in ParentIdFields}
    \cup {JoinDash(<<<<"0", "0">>, ValidTraceId, ValidParentId>>),
          JoinDash(<<<<"0", "0">>, ValidTraceId, ValidParentId, <<"0", "1">>, <<"x">>>>),
          JoinDash(<<<<"f", "f">>, ValidTraceId, ValidParentId, <<"z", "z">>>>),
          <<"x">>}
\* req.get('traceparent'): no header, an empty one, or a text
RequestHeaders == {Null, Some(<< >>)} \cup {Some(h) : h \in HeaderTexts}
\* contexts handed to toTraceparent
PropContexts ==
    {TraceContext(t, sp, Null) : t \in {Repeat("c", TraceIdLen), Repeat("g", TraceIdLen)},
                                 sp \in {Repeat("d", SpanIdLen), Repeat("d", SpanIdLen - 1)}}
\* the header text the last call produced
ProducedHeaders ==
    IF last.op = "toTraceparent" THEN {last.ret[1]}
    ELSE IF last.op = "tracingMiddleware" THEN {last.ret[1].traceparent}
    ELSE {}

InitPropagation ==
    /\ now = 1
    /\ last = NoCall
    /\ enabled \in BOOLEAN
    /\ sampleRate \in {0, 100}
    /\ esEnabled = FALSE
    /\ InitTraceVars
    /\ InitMetricVars
    /\ cooldownMs = 0
    /\ emailEnabled = FALSE
    /\ InitAlertVars
    /\ InitExportVars
    /\ InitCheckCfg
    /\ InitCheckVars
    /\ InitFrontVars
    /\ InitRequestVars

NextPropagation ==
    \/ /\ nextSpanId <= MaxPropSpans
       /\ \E h \in RequestHeaders, r \in {0} : TracingMiddleware(h, r)
    \/ /\ nextSpanId <= MaxPropSpans
       /\ \E h \in HeaderTexts \cup ProducedHeaders : ParseTraceparent(h)
    \/ \E ctx \in PropContexts : ToTraceparent(ctx)

SpecPropagation == InitPropagation /\ [][NextPropagation]_vars

\* ------------------------------------------------------------------ request chain
\* Mutant of middlewares: the request logger is registered first.
middlewaresLoggerFirst == <<"requestLoggerMiddleware", "tracingMiddleware">>

\* app.use(tracingMiddleware); app.use(requestLoggerMiddleware);
middlewares == <<"tracingMiddleware", "requestLoggerMiddleware">>

\* What a middleware puts around res.end, and what it does on arrival.
WrapperOf(m) == IF m = "tracingMiddleware" THEN "endSpan" ELSE "recordRequest"
ArrivalOf(m) == IF m = "tracingMiddleware" THEN "span" ELSE "logger"
EventOf(w) == IF w = "endSpan" THEN "spanClosed" ELSE "metric"

Reverse(seq) == [i \in 1..Len(seq) |-> seq[Len(seq) + 1 - i]]

\* res.end(): the outermost wrapper runs first and calls the one it wraps.
EndEvents(q) == [i \in 1..Len(requests[q].end) |-> EventOf(Reverse(requests[q].end)[i])]

ChainHeaders == {Null, Some(JoinDash(<<<<"0", "0">>, ValidTraceId, ValidParentId, <<"0", "1">>>>))}

\* A request arrives: the registered middleware run in order, each calling
\* next(), and hand the request to the domain code.
Arrive(q, traceparent, r) ==
    /\ requests[q].pc = "none"
    /\ LET st == tracingMiddleware(traceparent, r)
       IN /\ nextTraceId' = st.nextTraceId
          /\ nextSpanId' = st.nextSpanId
          /\ activeSpans' = st.activeSpans
          /\ unsampled' = st.unsampled
          /\ requests' = [requests EXCEPT ![q] =
                [@ EXCEPT !.pc = "handling",
                          !.spanId = Some(st.spanId),
                          !.startDate = now,
                          !.end = [i \in 1..Len(middlewares) |-> WrapperOf(middlewares[i])],
                          !.trail = [i \in 1..Len(middlewares) |-> ArrivalOf(middlewares[i])]
                                    \o <<"handling">>]]
          /\ last' = Call("arrive", q, st.continued, Null)
    /\ UNCHANGED <<now, traceCfg, completedSpans, shipped, metricVars, alertCfg, emailSettled,
                   alertVars, exportVars, errorRateThreshold, responseTimeThresholdMs, frontVars,
                   checkVars>>

\* The metric the wrapper of requestLoggerMiddleware records.
RequestMetric(q, statusCode) ==
    [method |-> "GET", path |-> "/x", statusCode |-> statusCode,
     durationMs |-> now - requests[q].startDate, timestamp |-> requests[q].startDate]

\* res.end() of a request both middleware wrapped: the metric is recorded
\* and the span is ended.
ResEnd(q, statusCode) ==
    LET st == endSpan(requests[q].spanId[1], IF statusCode >= 400 THEN "error" ELSE "ok", TagA(3))
    IN /\ requestMetrics' =
            Evict(Append(requestMetrics, RequestMetric(q, statusCode)), maxMetricsRetained)
       /\ activeSpans' = st.activeSpans
       /\ completedSpans' = st.completedSpans
       /\ shipped' = st.shipped

\* The domain code answers the request.
Respond(q, statusCode) ==
    /\ requests[q].pc = "handling"
    /\ ResEnd(q, statusCode)
    /\ requests' = [requests EXCEPT ![q] =
          [@ EXCEPT !.pc = "ended", !.statusCode = statusCode,
                    !.trail = @ \o EndEvents(q)]]
    /\ last' = Call("respond", <<q, statusCode>>, TRUE, Null)
    /\ UNCHANGED <<now, traceCfg, nextTraceId, nextSpanId, unsampled, dbMetrics, alertCfg,
                   emailSettled, alertVars, exportVars, errorRateThreshold,
                   responseTimeThresholdMs, frontVars, checkVars>>

ChainErrors == {[message |-> "boom", status |-> Null]}

\* errorTrackerMiddleware(err, req, res, next): the domain code passed an
\* error on, before or after it answered the request.
ErrorTrackerMiddleware(q, err) ==
    LET statusCode == IF err.status # Null /\ err.status[1] # 0 THEN err.status[1] ELSE 500
        headersSent == requests[q].pc = "ended"
        e == [message |-> err.message, path |-> "/x", timestamp |-> now]
    IN /\ requests[q].pc \in {"handling", "ended"}
       /\ requests[q].headersSent = Null
       /\ now' = now
       /\ errorLog' = SelectSeq(Append(errorLog, e),
                                LAMBDA x : x.timestamp > now - errorRetentionMs)
       /\ errorCalls' = Append(errorCalls, now)
       /\ LET errorRate == getErrorRate'
              st == IF errorRate >= trackerErrorRate
                    THEN createAlert(AlertState,
                           [type |-> "error_rate",
                            severity |-> IF errorRate >= 2 * trackerErrorRate
                                         THEN "critical" ELSE "warning",
                            title |-> "High Error Rate",
                            message |-> <<errorRate, "/x">>,
                            metadata |-> [errorRate |-> errorRate, lastError |-> err.message,
                                          path |-> "/x"]])
                    ELSE AlertState
          IN /\ alerts' = st.alerts
             /\ lastAlertTime' = st.lastAlertTime
             /\ nextAlertId' = st.nextAlertId
             /\ emails' = st.emails
             /\ emitted' = IF st.ret = Null THEN emitted
                           ELSE SetLast(emitted, <<st.ret[1].type, st.ret[1].severity>>, now)
             /\ last' = Call("errorTrackerMiddleware", q, st.ret # Null, st.ret)
       /\ IF headersSent
          THEN UNCHANGED <<requestMetrics, activeSpans, completedSpans, shipped>>
          ELSE ResEnd(q, statusCode)
       /\ requests' = [requests EXCEPT ![q] =
             [@ EXCEPT !.pc = "ended",
                       !.headersSent = Some(headersSent),
                       !.statusCode = IF headersSent THEN @ ELSE statusCode,
                       !.trail = @ \o <<"error">>
                                   \o (IF headersSent THEN << >> ELSE EndEvents(q))]]
       /\ UNCHANGED <<traceCfg, nextTraceId, nextSpanId, unsampled, dbMetrics, alertCfg,
                      emailSettled, exportVars, errorRateThreshold, responseTimeThresholdMs,
                      frontVars, checkInterval, liveTimers, nextTimerId>>

\* Requests pass the middleware, no cooldown is configured; the configured threshold of the error rate is the one the error tracker
\* uses or twice that.
InitRequests ==
    /\ now = 1
    /\ last = NoCall
    /\ enabled = TRUE
    /\ sampleRate = 100
    /\ esEnabled = FALSE
    /\ InitTraceVars
    /\ InitMetricVars
    /\ cooldownMs = 0
    /\ emailEnabled = FALSE
    /\ InitAlertVars
    /\ InitExportVars
    /\ errorRateThreshold \in {trackerErrorRate, 2 * trackerErrorRate}
    /\ responseTimeThresholdMs = 10
    /\ InitCheckVars
    /\ InitFrontVars
    /\ InitRequestVars

NextRequests ==
    \/ Tick(MaxRequestTime)
    \/ \E q \in ReqIds, h \in ChainHeaders, r \in {0} : Arrive(q, h, r)
    \/ \E q \in ReqIds, s \in {200, 404} : Respond(q, s)
    \/ \E q \in ReqIds, err \in ChainErrors : ErrorTrackerMiddleware(q, err)

SpecRequests == InitRequests /\ [][NextRequests]_vars

\* The two makers of error-rate alerts: the error tracker of the request
\* chain and the scheduled check.
NextErrorAlerts ==
    \/ NextRequests
    \/ checkInterval = Null /\ Start
    \/ nextAlertId <= MaxChainAlerts /\ \E t \in liveTimers : RunChecks(t)

SpecErrorAlerts == InitRequests /\ [][NextErrorAlerts]_vars

\* ------------------------------------------------------------------ claims: tracing
Occurrences(spans, id) == Cardinality({i \in 1..Len(spans) : spans[i].spanId = id})
IsEndSpanOf(call, id) == call.op = "endSpan" /\ call.arg[1] = id

\* C3: endSpan on a span id that is not active changes neither the active set
\* nor the completed store and ships nothing; after endSpan(id) the id is not
\* active, so a second endSpan(id) is such a call, and no span is ever
\* completed or shipped twice.
C3_EndSpanInactiveNoOp ==
    /\ [][\A id \in SpanIdArgs :
            (IsEndSpanOf(last', id) /\ ~MapHas(activeSpans, id))
                => UNCHANGED <<activeSpans, completedSpans, shipped>>]_vars
    /\ [][\A id \in SpanIdArgs : IsEndSpanOf(last', id) => ~MapHas(activeSpans', id)]_vars
    /\ [](\A id \in SpanIdArgs :
            /\ Occurrences(completedSpans, id) <= 1
            /\ Occurrences(shipped, id) <= 1)

\* C3 witness: endSpan was called a second time on a span already completed
\* and shipped once.
C3_Witness ==
    /\ last.op = "endSpan"
    /\ ~last.hit
    /\ esEnabled
    /\ Occurrences(completedSpans, last.arg[1]) = 1
    /\ Occurrences(shipped, last.arg[1]) = 1

\* C4: no span id is both active and completed, and no span id is twice in the
\* completed store.
C4_ActiveCompletedDisjoint ==
    /\ SpanIds(activeSpans) \cap SpanIds(completedSpans) = {}
    /\ \A id \in SpanIds(completedSpans) : Occurrences(completedSpans, id) = 1

\* C4 witness: one span is completed while another is active.
C4_Witness == Len(completedSpans) >= 1 /\ Len(activeSpans) >= 1

\* C5: a span in the completed store is never changed (it stays as it is until
\* it is evicted), whatever is called; addSpanLog and addSpanTags on a span id
\* that is not active change nothing in the tracing service.
C5_CompletedSpansImmutable ==
    /\ [][\A i \in 1..Len(completedSpans), j \in 1..Len(completedSpans') :
            completedSpans'[j].spanId = completedSpans[i].spanId
                => completedSpans'[j] = completedSpans[i]]_vars
    /\ [][\A id \in SpanIdArgs :
            (/\ last'.op \in {"addSpanLog", "addSpanTags"}
             /\ last'.arg = id
             /\ ~MapHas(activeSpans, id))
                => UNCHANGED traceVars]_vars

\* C5 witness: addSpanTags was called on a span that is completed, whose tags
\* are still those endSpan left and whose log is the one entry added while active.
C5_Witness ==
    /\ last.op = "addSpanTags"
    /\ ~last.hit
    /\ MapHas(completedSpans, last.arg)
    /\ MapGet(completedSpans, last.arg).tags = TagA(3)
    /\ Len(MapGet(completedSpans, last.arg).logs) = 1
    /\ activeSpans # << >>

\* C6: endSpan(id, status) on an active span removes it from the active set and
\* appends it to the completed store with that status, endTime = now and
\* duration = endTime - startTime, and ships it once iff export is enabled; a
\* completed root span that is its trace's only span is all getTrace returns.
C6_EndSpanCompletes ==
    /\ [][\A id \in SpanIdArgs, st \in SpanStatuses :
            (last' = Call("endSpan", <<id, st>>, TRUE, Null) /\ MapHas(activeSpans, id))
                => LET old == MapGet(activeSpans, id)
                       c == completedSpans'[Len(completedSpans')]
                   IN /\ ~MapHas(activeSpans', id)
                      /\ Len(activeSpans') = Len(activeSpans) - 1
                      /\ completedSpans' # << >>
                      /\ c.spanId = id
                      /\ c.traceId = old.traceId
                      /\ c.startTime = old.startTime
                      /\ c.status = st
                      /\ c.endTime = Some(now)
                      /\ c.duration = Some(c.endTime[1] - old.startTime)
                      /\ shipped' = IF esEnabled THEN Append(shipped, c) ELSE shipped]_vars
    /\ [](\A i \in 1..Len(completedSpans) :
            LET c == completedSpans[i]
                others == {s \in SpanIds(activeSpans) \cup SpanIds(completedSpans) : s # c.spanId}
            IN (/\ c.parentSpanId = Null
                /\ \A j \in 1..Len(activeSpans) : activeSpans[j].traceId # c.traceId
                /\ \A j \in 1..Len(completedSpans) : j # i => completedSpans[j].traceId # c.traceId)
               => /\ getTrace(c.traceId) = <<c>>
                  /\ c.status \in SpanStatuses
                  /\ c.duration # Null)

\* C6 witness: an endSpan just completed and shipped a sampled root span that
\* ran for one instant, and getTrace returns exactly it.
C6_Witness ==
    /\ last.op = "endSpan"
    /\ last.hit
    /\ esEnabled
    /\ completedSpans # << >>
    /\ LET c == completedSpans[Len(completedSpans)]
       IN /\ c.spanId = last.arg[1]
          /\ c.parentSpanId = Null
          /\ c.status = "ok"
          /\ c.duration = Some(1)
          /\ getTrace(c.traceId) = <<c>>
          /\ shipped = <<c>>

\* C8 (as claimed): at sample rate 1.0 every startTrace records a root span, and
\* at sample rate 0.0 getTrace is empty for every trace id.
AllTraceIds == 0..(nextTraceId - 1)
C8_SampleRateDecides ==
    /\ (enabled /\ sampleRate = 100 /\ last.op = "startTrace")
          => MapHas(activeSpans, last.ret[1].spanId)
    /\ sampleRate = 0 => \A t \in AllTraceIds : getTrace(t) = << >>

\* C9 (as claimed): a trace whose root startTrace did not sample never has a span.
C9_UnsampledTraceStaysEmpty == \A t \in unsampled : getTrace(t) = << >>

\* C10: startTrace returns a context with a trace id and a span id never handed
\* out before and carried by no stored span, and parentSpanId null; it never
\* touches the completed store, and leaves the active set alone when the trace is
\* not sampled (always so with tracing off or at sample rate 0).
C10_StartTraceContext ==
    [][(last'.op = "startTrace" /\ nextTraceId' # nextTraceId)
          => LET ctx == last'.ret[1]
             IN /\ ctx.parentSpanId = Null
                /\ ctx.traceId \notin 0..(nextTraceId - 1)
                /\ ctx.spanId \notin 0..(nextSpanId - 1)
                /\ ctx.spanId \notin SpanIds(activeSpans) \cup SpanIds(completedSpans)
                /\ completedSpans' = completedSpans
                /\ ~last'.hit => activeSpans' = activeSpans
                /\ (~enabled \/ sampleRate = 0) => activeSpans' = activeSpans
                /\ last'.hit =>
                      /\ Len(activeSpans') = Len(activeSpans) + 1
                      /\ MapGet(activeSpans', ctx.spanId).traceId = ctx.traceId
                      /\ MapGet(activeSpans', ctx.spanId).parentSpanId = Null]_vars

\* C10 witness: with tracing on, a startTrace that the draw did not sample
\* returned its context while another span was active.
C10_Witness ==
    /\ last.op = "startTrace"
    /\ ~last.hit
    /\ enabled
    /\ sampleRate = 50
    /\ last.ret[1].parentSpanId = Null
    /\ Len(activeSpans) = 1

\* ------------------------------------------------------------------ claims: alerting
\* The step is a call of createAlert with the key: calls happen at one instant,
\* and only the passing of time leaves the record of the last call alone.
IsCreateAlertOf(call, key) == call.op = "createAlert" /\ call.arg = key
AlertKeys == AlertTypes \X Severities
KeyOf(alert) == <<alert.type, alert.severity>>
EmittedWithin(key) == key \in DOMAIN emitted /\ now - emitted[key] < cooldownMs

\* C1: a createAlert whose (type, severity) last stored an alert less than
\* ALERT_COOLDOWN_MS ago returns null and stores nothing; a createAlert once
\* the cooldown has elapsed, or for a pair never stored, stores a new alert
\* stamped now and returns it; so two stored alerts of one pair are never
\* less than the cooldown apart.
C1_CooldownPerKey ==
    /\ [][\A key \in AlertKeys :
            (IsCreateAlertOf(last', key) /\ now' = now /\ EmittedWithin(key))
                => (last'.ret = Null /\ alerts' = alerts)]_vars
    /\ [][\A key \in AlertKeys :
            (IsCreateAlertOf(last', key) /\ now' = now /\ ~EmittedWithin(key))
                => /\ last'.ret # Null
                   /\ alerts' # << >>
                   /\ alerts'[Len(alerts')] = last'.ret[1]
                   /\ KeyOf(last'.ret[1]) = key
                   /\ last'.ret[1].timestamp = now]_vars
    /\ [](\A i \in 1..Len(alerts), j \in 1..Len(alerts) :
            (i < j /\ KeyOf(alerts[i]) = KeyOf(alerts[j]))
                => alerts[j].timestamp - alerts[i].timestamp >= cooldownMs)

\* C1 witness: with a cooldown of two, the store holds two alerts of one pair
\* exactly two apart, the second just created.
C1_Witness ==
    /\ cooldownMs = 2
    /\ last.op = "createAlert"
    /\ last.hit
    /\ Len(alerts) = 2
    /\ KeyOf(alerts[1]) = KeyOf(alerts[2])
    /\ alerts[2].timestamp - alerts[1].timestamp = 2
    /\ now = alerts[2].timestamp

\* C2: a createAlert suppressed by the cooldown returns null and leaves the
\* alerts store, the cooldown map and the id source as they were, and sends no
\* notification.
C2_SuppressedCreateAlertNoOp ==
    [][\A key \in AlertKeys :
        (IsCreateAlertOf(last', key) /\ now' = now /\ EmittedWithin(key))
            => /\ last'.ret = Null
               /\ ~last'.hit
               /\ UNCHANGED <<alerts, lastAlertTime, nextAlertId, emails>>]_vars

\* C2 witness: with e-mail enabled, a createAlert one instant after the stored
\* alert of its pair was suppressed; one alert, one notification.
C2_Witness ==
    /\ emailEnabled
    /\ last.op = "createAlert"
    /\ ~last.hit
    /\ Len(alerts) = 1
    /\ KeyOf(alerts[1]) = last.arg
    /\ now = alerts[1].timestamp + 1
    /\ lastAlertTime[last.arg] = alerts[1].timestamp
    /\ emails = <<alerts[1].id>>

\* ------------------------------------------------------------------ claims: stores
\* after is before with x pushed: appended while the store is within its cap,
\* cut down to the newest cap / 2 entries, in order, when the push exceeds it.
PushedWithinCap(before, after, x, cap) ==
    LET pushed == Append(before, x)
        half == cap \div 2
    IN IF Len(before) < cap
       THEN after = pushed
       ELSE /\ Len(after) = half
            /\ \A k \in 1..half : after[k] = pushed[Len(pushed) - half + k]

\* C7: the completed-span store, the request-metrics store and the alerts
\* store never hold more than their caps; a push onto a store below its cap
\* appends, and a push onto a full store leaves exactly the newest cap / 2
\* entries (the pushed one last) in their order.
C7_StoresBounded ==
    /\ [](/\ Len(completedSpans) <= maxCompletedSpans
          /\ Len(requestMetrics) <= maxMetricsRetained
          /\ Len(alerts) <= maxAlerts)
    /\ [][(last'.op = "endSpan" /\ last'.hit /\ last' # last)
            => /\ completedSpans' # << >>
               /\ completedSpans'[Len(completedSpans')].spanId = last'.arg[1]
               /\ PushedWithinCap(completedSpans, completedSpans',
                                  completedSpans'[Len(completedSpans')],
                                  maxCompletedSpans)]_vars
    /\ [][(last'.op = "recordRequest" /\ (last' # last \/ requestMetrics' # requestMetrics))
            => PushedWithinCap(requestMetrics, requestMetrics', last'.arg,
                               maxMetricsRetained)]_vars
    /\ [][(last'.op = "createAlert" /\ last'.hit /\ last' # last)
            => PushedWithinCap(alerts, alerts', last'.ret[1], maxAlerts)]_vars

\* C7 witness: each store has been pushed beyond its cap: the completed store
\* and the alerts store hold only the entry pushed onto the full store, and the
\* metrics store is at half its cap after the last recordRequest.
C7_Witness ==
    /\ Len(completedSpans) = maxCompletedSpans \div 2
    /\ completedSpans[Len(completedSpans)].spanId = maxCompletedSpans + 1
    /\ Len(alerts) = maxAlerts \div 2
    /\ alerts[Len(alerts)].id = maxAlerts + 1
    /\ last.op = "recordRequest"
    /\ Len(requestMetrics) = maxMetricsRetained \div 2
    /\ requestMetrics[1].durationMs = 20
    /\ requestMetrics[2].durationMs = 10

\* ------------------------------------------------------------------ claims: propagation
IsHexChar(c) == \E i \in 1..Len(HexDigits) : HexDigits[i] = c
IsHexText(t, len) == Len(t) = len /\ \A i \in 1..Len(t) : IsHexChar(t[i])
Dashes(h) == {i \in 1..Len(h) : h[i] = "-"}
\* The second and the third field of a header of four fields.
TraceField(h) ==
    LET d1 == CHOOSE i \in Dashes(h) : \A j \in Dashes(h) : i <= j
        d2 == CHOOSE i \in Dashes(h) \ {d1} : \A j \in Dashes(h) \ {d1} : i <= j
    IN SubSeq(h, d1 + 1, d2 - 1)
ParentField(h) ==
    LET d3 == CHOOSE i \in Dashes(h) : \A j \in Dashes(h) : i >= j
        d2 == CHOOSE i \in Dashes(h) \ {d3} : \A j \in Dashes(h) \ {d3} : i >= j
    IN SubSeq(h, d2 + 1, d3 - 1)
\* Four dash-separated fields, a trace id of 32 hex characters and a parent id
\* of 16 hex characters.
Conforming(h) ==
    /\ Cardinality(Dashes(h)) = 3
    /\ IsHexText(TraceField(h), TraceIdLen)
    /\ IsHexText(ParentField(h), SpanIdLen)

\* C11 (as claimed): parseTraceparent returns null for every header that is
\* not of four fields with a 32-hex trace id and a 16-hex parent id, and for a
\* conforming one the header's trace id, its parent id as parentSpanId and a
\* newly generated span id.
C11_ParseTraceparentRejects ==
    last.op = "parseTraceparent" =>
        IF Conforming(last.arg)
        THEN /\ last.ret # Null
             /\ last.ret[1].traceId = TraceField(last.arg)
             /\ last.ret[1].parentSpanId = Some(ParentField(last.arg))
             /\ last.ret[1].spanId = nextSpanId - 1
        ELSE last.ret = Null

\* C12: toTraceparent(ctx) is 00-{traceId}-{spanId}-01, and for a context with
\* a 32-hex trace id and a 16-hex span id parseTraceparent of that text is not
\* null and carries the context's trace id, and its span id as parentSpanId.
C12_TraceparentRoundTrip ==
    /\ [](last.op = "toTraceparent" =>
            last.ret[1] = <<"0", "0", "-">> \o last.arg.traceId \o <<"-">>
                          \o last.arg.spanId \o <<"-", "0", "1">>)
    /\ [][(/\ last.op = "toTraceparent"
           /\ last'.op = "parseTraceparent"
           /\ last'.arg = last.ret[1]
           /\ IsHexText(last.arg.traceId, TraceIdLen)
           /\ IsHexText(last.arg.spanId, SpanIdLen))
              => /\ last'.ret # Null
                 /\ last'.ret[1].traceId = last.arg.traceId
                 /\ last'.ret[1].parentSpanId = Some(last.arg.spanId)]_vars

\* C12 witness: the text toTraceparent made of a valid context (no request
\* carries it) was parsed back.
C12_Witness ==
    /\ last.op = "parseTraceparent"
    /\ last.hit
    /\ last.arg = <<"0", "0", "-">> \o Repeat("c", TraceIdLen) \o <<"-">>
                  \o Repeat("d", SpanIdLen) \o <<"-", "0", "1">>
    /\ last.ret[1].traceId = Repeat("c", TraceIdLen)
    /\ last.ret[1].parentSpanId = Some(Repeat("d", SpanIdLen))
    /\ last.ret[1].spanId = 1

\* C13 (as claimed): the middleware attaches a context and answers with the
\* header 00-{traceId}-{spanId}-01 of it; with a valid incoming header the
\* context continues the header's trace with the incoming span id as parent,
\* with an absent or malformed one it is a new root trace.
C13_MiddlewareContext ==
    last.op = "tracingMiddleware" =>
        LET ctx == last.ret[1].traceContext
        IN /\ last.ret[1].traceparent =
                <<"0", "0", "-">> \o ctx.traceId \o <<"-">> \o ctx.spanId \o <<"-", "0", "1">>
           /\ ctx.spanId = HexId(nextSpanId - 1, SpanIdLen)
           /\ IF last.arg # Null /\ Conforming(last.arg[1])
              THEN /\ ctx.traceId = TraceField(last.arg[1])
                   /\ ctx.parentSpanId = Some(ParentField(last.arg[1]))
              ELSE /\ ctx.traceId = HexId(nextTraceId - 1, TraceIdLen)
                   /\ ctx.parentSpanId = Null

\* ------------------------------------------------------------------ claims: trace queries
\* The spans of both stores, as getTrace reads them.
StoredSpans == activeSpans \o completedSpans
\* The exported spans the completed store no longer holds.
EvictedSpans ==
    {shipped[k] : k \in {i \in 1..Len(shipped) : ~MapHas(completedSpans, shipped[i].spanId)}}

\* C14: getTrace(traceId) returns exactly the spans held in activeSpans or
\* completedSpans whose traceId equals the argument, each exactly once, in
\* non-decreasing startTime order; spans evicted from completedSpans are not
\* returned; the call changes no state.
C14_GetTraceExact ==
    [][(last'.op = "getTrace" /\ now' = now) =>
          LET traceId == last'.arg[1]
              ret == last'.ret
          IN /\ UNCHANGED <<now, traceCfg, traceVars, metricVars, alertCfg, emailSettled, alertVars>>
             /\ \A i \in 1..Len(ret) :
                   /\ ret[i].traceId = traceId
                   /\ \E j \in 1..Len(StoredSpans) : StoredSpans[j] = ret[i]
             /\ \A j \in 1..Len(StoredSpans) :
                   StoredSpans[j].traceId = traceId =>
                      Cardinality({i \in 1..Len(ret) : ret[i] = StoredSpans[j]}) = 1
             /\ \A i \in 1..(Len(ret) - 1) : ret[i].startTime <= ret[i + 1].startTime
             /\ \A e \in EvictedSpans : \A i \in 1..Len(ret) : ret[i].spanId # e.spanId
    ]_vars

\* getTrace has returned an active and a completed span of the queried trace,
\* in another order than the stores hold them, while a span of that trace had
\* been evicted and another trace had had spans too.
C14_Witness ==
    /\ last.op = "getTrace"
    /\ last.ret = getTrace(last.arg[1])
    /\ last.ret # getTraceUnsorted(last.arg[1])
    /\ \E i, j \in 1..Len(last.ret) :
          /\ MapHas(activeSpans, last.ret[i].spanId)
          /\ MapHas(completedSpans, last.ret[j].spanId)
    /\ \E e \in EvictedSpans : e.traceId = last.arg[1]
    /\ \E k \in 1..Len(shipped) : shipped[k].traceId # last.arg[1]

\* ------------------------------------------------------------------ claims: log exporter
\* The records log() has accepted so far.
DocIds == 1..(nextDocId - 1)
\* Where record d sits in the requests sent: <<request, position>>.
SentAt(d) ==
    {<<i, k>> \in (1..Len(bulks)) \X (1..bufferLimit) :
        k <= Len(bulks[i].docs) /\ bulks[i].docs[k].id = d}
Buffered(d) == \E k \in 1..Len(buffer) : buffer[k].id = d
Failed(i) == bulks[i].response \in {"non2xx", "rejected"}

\* C15: every record log() accepted is in at most one bulk request; when a
\* flush fails (rejected fetch or non-2xx response) none of its records goes
\* back into the buffer or into another request, and the failure does not
\* reach the caller of log(): log() returns through its callback and the
\* promise of flush never rejects.
C15_FlushNeverResends ==
    /\ [](\A d \in DocIds : Cardinality(SentAt(d)) <= 1 /\ ~(Buffered(d) /\ SentAt(d) # {}))
    /\ [](\A i \in 1..Len(bulks) :
            /\ bulks[i].promise # "rejected"
            /\ bulks[i].response # "pending" => bulks[i].promise = "resolved")
    /\ [](last.op = "log" => last.ret = Some("callback"))
    /\ [][(last'.op = "flushSettles" /\ ~last'.hit /\ bulks' # bulks) =>
            /\ buffer' = buffer
            /\ Len(bulks') = Len(bulks)
            /\ \A i \in 1..Len(bulks) : bulks'[i].docs = bulks[i].docs
            /\ UNCHANGED <<nextDocId, flushTimer, notExport>>
       ]_vars

\* log() has returned after one request was rejected and another answered
\* non-2xx: their records are in no other request and not in the buffer, which
\* holds the new record.
C15_Witness ==
    /\ last.op = "log"
    /\ last.ret = Some("callback")
    /\ Len(buffer) > 0
    /\ \E i, j \in 1..Len(bulks) :
          /\ bulks[i].response = "rejected"
          /\ bulks[j].response = "non2xx"
          /\ \A k \in 1..Len(bulks[i].docs) :
                ~Buffered(bulks[i].docs[k].id) /\ Cardinality(SentAt(bulks[i].docs[k].id)) = 1

\* C16: after every log() call the buffer holds fewer than bufferLimit
\* records: the call that brings it to the limit sends all buffered records,
\* in buffer order and the new one last, in one bulk request and leaves the
\* buffer empty.
C16_BufferBelowLimit ==
    /\ [](Len(buffer) < bufferLimit)
    /\ [][(last'.op = "log" /\ nextDocId' # nextDocId /\ Len(buffer) + 1 >= bufferLimit) =>
            /\ buffer' = << >>
            /\ Len(bulks') = Len(bulks) + 1
            /\ SubSeq(bulks', 1, Len(bulks)) = bulks
            /\ LET docs == bulks'[Len(bulks')].docs
               IN /\ Len(docs) = Len(buffer) + 1
                  /\ SubSeq(docs, 1, Len(buffer)) = buffer
                  /\ docs[Len(docs)].id = last'.arg[1]
       ]_vars

\* log() has just filled the buffer: the last request carries bufferLimit
\* records, the newest last, and the buffer is empty.
C16_Witness ==
    /\ last.op = "log"
    /\ last.hit
    /\ buffer = << >>
    /\ bulks # << >>
    /\ Len(bulks[Len(bulks)].docs) = bufferLimit
    /\ bulks[Len(bulks)].docs[bufferLimit].id = last.arg[1]
    /\ \A k \in 1..(bufferLimit - 1) :
          bulks[Len(bulks)].docs[k].id < bulks[Len(bulks)].docs[k + 1].id

\* C17: while the exporter is not closed, every record log() accepted leaves
\* the buffer in a bulk request no later than the next firing of the flush
\* interval, whether or not the buffer reaches the limit: the firing sends
\* all buffered records and empties the buffer, a buffered record of an
\* exporter that is not closed is eventually sent, and a firing on an
\* empty buffer sends nothing.
C17_FlushedByNextTick ==
    /\ [][(last'.op = "flushInterval" /\ now' = now) =>
            IF Len(buffer) = 0
            THEN bulks' = bulks /\ buffer' = buffer
            ELSE /\ buffer' = << >>
                 /\ bulks' = Append(bulks, Bulk(buffer))
       ]_vars
    /\ \A d \in 1..MaxDocs :
          (Buffered(d) /\ flushTimer = "live") ~> (SentAt(d) # {} /\ ~Buffered(d))

\* The interval has fired on a buffer below the limit: its records are in the
\* last request and the buffer is empty; the exporter is not closed.
C17_Witness ==
    /\ last.op = "flushInterval"
    /\ last.hit
    /\ flushTimer = "live"
    /\ buffer = << >>
    /\ bulks # << >>
    /\ Len(bulks[Len(bulks)].docs) \in 1..(bufferLimit - 1)
    /\ bulks[Len(bulks)].response = "pending"

\* What close() does to the buffer, the requests and the interval, whatever
\* the order of its two statements, and what follows from a cleared interval.
CloseFlushesOnce ==
    /\ Cardinality({k \in 1..Len(effects') : effects'[k] = "flush"}) = 1
    /\ Cardinality({k \in 1..Len(effects') : effects'[k] = "clearInterval"}) = 1
    /\ buffer' = << >>
    /\ bulks' = IF Len(buffer) = 0 THEN bulks ELSE Append(bulks, Bulk(buffer))
    /\ flushTimer' = "cleared"
NoFlushAfterClose ==
    flushTimer = "cleared" =>
        /\ flushTimer' = "cleared"
        /\ last' # last => last'.op # "flushInterval"

\* C18, as claimed: close() performs exactly one final flush of all records
\* buffered at that moment and releases the periodic timer, the flush
\* happening before the timer is released; after close no periodic flush
\* fires.
C18_CloseFlushesBeforeRelease ==
    [][/\ (last'.op = "close" /\ now' = now) =>
             CloseFlushesOnce /\ effects' = <<"flush", "clearInterval">>
       /\ NoFlushAfterClose
    ]_vars

\* C18, amended: close() releases the periodic timer and then, in the same
\* call, performs exactly one final flush of all records buffered at that
\* moment; after close no periodic flush fires.
C18_CloseReleasesThenFlushes ==
    [][/\ (last'.op = "close" /\ now' = now) =>
             CloseFlushesOnce /\ effects' = <<"clearInterval", "flush">>
       /\ NoFlushAfterClose
    ]_vars

\* close() has run on a buffer holding records: the interval is cleared, the
\* records are in the last request, and the clearing came first.
C18_Witness ==
    /\ last.op = "close"
    /\ last.hit
    /\ effects = <<"clearInterval", "flush">>
    /\ flushTimer = "cleared"
    /\ buffer = << >>
    /\ bulks # << >>
    /\ Len(bulks[Len(bulks)].docs) > 1

\* ------------------------------------------------------------------ claims: export failures
\* The shipSpan requests still unanswered.
PendingShips == {i \in 1..Len(shipped) : \A r \in shipSettled : r.request # i}

\* C19: endSpan and recordRequest return normally and leave the same active
\* set, completed store and request-metric buffer whether the span and log
\* exports succeed, fail or never complete: a settling export, whatever its
\* outcome, changes none of the tracing and metrics state, and the result of
\* endSpan and recordRequest is the one the stores and the argument
\* determine, before and after any export failure.
C19_ExportFailureIsolated ==
    [][/\ (last'.op \in {"shipSettles", "flushSettles"} /\ last' # last) =>
             UNCHANGED <<now, traceCfg, traceVars, metricVars>>
       /\ (last'.op = "endSpan" /\ last' # last) =>
             /\ last'.ret = Null
             /\ LET id == last'.arg[1]
                IN IF MapHas(activeSpans, id)
                   THEN LET span == EndedSpan(MapGet(activeSpans, id), last'.arg[2], EmptyTags)
                        IN /\ activeSpans' = MapDelete(activeSpans, id)
                           /\ completedSpans' =
                                 Evict(Append(completedSpans, span), maxCompletedSpans)
                   ELSE UNCHANGED <<activeSpans, completedSpans>>
             /\ requestMetrics' = requestMetrics
       /\ (last'.op = "recordRequest" /\ now' = now) =>
             /\ last'.ret = Null
             /\ requestMetrics' = Evict(Append(requestMetrics, last'.arg), maxMetricsRetained)
             /\ UNCHANGED <<activeSpans, completedSpans>>
    ]_vars

\* endSpan has completed a span after the export of an earlier span was
\* rejected, while its own export is unanswered, a bulk request of logs has
\* failed and requests have been recorded.
C19_Witness ==
    /\ last.op = "endSpan"
    /\ last.hit
    /\ Len(shipped) >= 2
    /\ \E r \in shipSettled : r.request = 1 /\ r.response = "rejected"
    /\ Len(shipped) \in PendingShips
    /\ completedSpans # << >>
    /\ completedSpans[Len(completedSpans)].spanId = last.arg[1]
    /\ \E i \in 1..Len(bulks) : Failed(i)
    /\ requestMetrics # << >>

\* ------------------------------------------------------------------ claims: scheduled checks
\* C20 (as claimed): for any sequence of start() and stop() calls, start()
\* called more than once included, at most one periodic check timer is live
\* at any time, and after stop() has returned no scheduled check runs until
\* start() is called again.
C20_SingleCheckTimer ==
    /\ [](Cardinality(liveTimers) <= 1)
    /\ [][(checkInterval = Null /\ last' # last) => last'.op # "runChecks"]_vars

\* The error_rate alerts a step has stored.
NewAlerts(type) ==
    {i \in 1..Len(alerts') : alerts'[i].id >= nextAlertId /\ alerts'[i].type = type}

\* C21: a scheduled error-rate check that runs with getErrorRate() = r and
\* threshold T creates no alert if r < T; if r >= T and the key is not in
\* cooldown it stores exactly one error_rate alert, with metadata.errorRate = r
\* and severity critical when r >= 2T, warning otherwise.
C21_ErrorRateCheck ==
    [][(last'.op = "runChecks" /\ now' = now) =>
          LET r == getErrorRate
              T == errorRateThreshold
              severity == IF r >= 2 * T THEN "critical" ELSE "warning"
          IN /\ r < T => NewAlerts("error_rate") = {}
             /\ (r >= T /\ ~InCooldown(lastAlertTime, <<"error_rate", severity>>)) =>
                   /\ Cardinality(NewAlerts("error_rate")) = 1
                   /\ \A i \in NewAlerts("error_rate") :
                         /\ alerts'[i].severity = severity
                         /\ alerts'[i].metadata.errorRate = r
                         /\ alerts'[i].timestamp = now
    ]_vars

\* A check has run with five errors in the window and threshold two: it
\* stored a critical error_rate alert with errorRate 5.
C21_Witness ==
    /\ last.op = "runChecks"
    /\ last.ret[1] # Null
    /\ errorRateThreshold = 2
    /\ getErrorRate = 5
    /\ alerts # << >>
    /\ alerts[Len(alerts)] = last.ret[1][1]
    /\ alerts[Len(alerts)].type = "error_rate"
    /\ alerts[Len(alerts)].severity = "critical"
    /\ alerts[Len(alerts)].metadata.errorRate = 5

\* The nearest-rank p-th percentile of the retained request durations: the
\* least retained duration that at least p percent of them do not exceed.
RetainedDurations == {requestMetrics[i].durationMs : i \in 1..Len(requestMetrics)}
NearestRank(p) ==
    CHOOSE v \in RetainedDurations :
        /\ 100 * Cardinality({i \in 1..Len(requestMetrics) : requestMetrics[i].durationMs <= v})
              >= p * Len(requestMetrics)
        /\ \A w \in RetainedDurations :
              100 * Cardinality({i \in 1..Len(requestMetrics) :
                                   requestMetrics[i].durationMs <= w})
                 >= p * Len(requestMetrics) => v <= w

C23_AcknowledgeAlert ==
    [][(last'.op = "acknowledgeAlert" /\ now' = now) =>
          LET id == last'.arg
              stored == \E i \in 1..Len(alerts) : alerts[i].id = id
          IN /\ last'.ret = Some(stored)
             /\ Len(alerts') = Len(alerts)
             /\ \A i \in 1..Len(alerts) :
                   alerts'[i] = IF alerts[i].id = id
                                THEN [alerts[i] EXCEPT !.acknowledged = TRUE]
                                ELSE alerts[i]
             /\ UNCHANGED <<lastAlertTime, nextAlertId, emails, alertCfg, emailSettled, notAlerting>>
    ]_vars

\* acknowledgeAlert has returned true for one of two stored alerts: it is
\* acknowledged, the other is not.
C23_Witness ==
    /\ last.op = "acknowledgeAlert"
    /\ last.ret = Some(TRUE)
    /\ Len(alerts) = 2
    /\ \E i, j \in 1..2 :
          /\ alerts[i].id = last.arg
          /\ alerts[i].acknowledged
          /\ alerts[j].id # last.arg
          /\ ~alerts[j].acknowledged

\* The stored alert with this id (ids are unique in the store).
StoredIds(as) == {as[i].id : i \in 1..Len(as)}
AlertOf(as, id) == as[CHOOSE i \in 1..Len(as) : as[i].id = id]

\* C24: alerts enter the store only through createAlert (called directly or
\* by a scheduled check), always with acknowledged = false; afterwards a
\* stored alert's acknowledged flag only changes from false to true, and its
\* id, type, severity, title, message, timestamp and metadata never change.
C24_AlertLifeCycle ==
    [][/\ \A id \in StoredIds(alerts') \ StoredIds(alerts) :
             /\ last'.op \in {"createAlert", "runChecks"}
             /\ IF last'.op = "createAlert" THEN last'.ret = Some(AlertOf(alerts', id))
                ELSE \E k \in 1..2 : last'.ret[k] = Some(AlertOf(alerts', id))
             /\ ~AlertOf(alerts', id).acknowledged
       /\ \A id \in StoredIds(alerts') \cap StoredIds(alerts) :
             LET before == AlertOf(alerts, id)
                 after == AlertOf(alerts', id)
             IN /\ [after EXCEPT !.acknowledged = FALSE] = [before EXCEPT !.acknowledged = FALSE]
                /\ before.acknowledged => after.acknowledged
    ]_vars

\* An alert a scheduled check created has been acknowledged; it is stored
\* next to an alert a caller created, otherwise as it was created.
C24_Witness ==
    /\ last.op = "acknowledgeAlert"
    /\ last.hit
    /\ \E i, j \in 1..Len(alerts) :
          /\ alerts[i].id = last.arg
          /\ alerts[i].type = "error_rate"
          /\ alerts[i].acknowledged
          /\ alerts[i].metadata.errorRate = 1
          /\ alerts[j].type = "custom"

\* ------------------------------------------------------------------ claims: alert queries
Matches(a, filter) ==
    /\ filter.severity # Null => Some(a.severity) = filter.severity
    /\ filter.type # Null => Some(a.type) = filter.type
    /\ filter.acknowledged # Null => Some(a.acknowledged) = filter.acknowledged

\* C25: getAlerts(filter) returns only stored alerts that match every given
\* filter field, newest first by timestamp, and at most `limit` of them (the
\* default when no limit is given); the store keeps its contents and order.
C25_GetAlerts ==
    [][(last'.op = "getAlerts" /\ now' = now) =>
          LET filter == last'.arg
              result == last'.ret
          IN /\ \A k \in 1..Len(result) :
                   /\ \E i \in 1..Len(alerts) : alerts[i] = result[k]
                   /\ Matches(result[k], filter)
             /\ \A k \in 1..(Len(result) - 1) : result[k].timestamp >= result[k + 1].timestamp
             /\ Len(result) <= (IF filter.limit = Null THEN defaultLimit ELSE filter.limit[1])
             /\ alerts' = alerts
    ]_vars

\* ------------------------------------------------------------------ claims: error window
\* The recordError calls made within the last window.
CallsInWindow == {k \in 1..Len(errorCalls) : errorCalls[k] > now - errorWindowMs}

\* C26: getErrorRate() is the number of recordError calls made within the
\* last window (the pruning of recordError never removes an error still
\* inside it), it changes no state, and it is 0 once a full window has
\* passed since the last recordError.
C26_ErrorRateWindow ==
    /\ [](getErrorRate = Cardinality(CallsInWindow))
    /\ []((errorCalls # << >> /\ now - errorCalls[Len(errorCalls)] >= errorWindowMs)
            => getErrorRate = 0)
    /\ [][(last'.op = "getErrorRate" /\ now' = now) =>
              /\ last'.ret = Cardinality(CallsInWindow)
              /\ UNCHANGED <<traceCfg, traceVars, metricVars, alertCfg, emailSettled, alertVars,
                             exportVars, checkCfg, requests, frontVars, checkVars>>
       ]_vars

\* Two errors of the current instant are counted after an older one was
\* pruned from the log.
C26_Witness ==
    /\ last.op = "getErrorRate"
    /\ last.ret = 2
    /\ Len(errorCalls) = 3
    /\ Len(errorLog) = 2

\* ------------------------------------------------------------------ claims: percentile
\* ceil(p / 100 * n): the least k with k / n >= p / 100.
CeilRank(p, n) == CHOOSE k \in 0..n : 100 * k >= p * n /\ \A j \in 0..(k - 1) : 100 * j < p * n

\* C27: the percentile of an ascending list is the nearest-rank value
\* sorted[max(0, ceil(p / 100 * n) - 1)]; for a non-empty list and
\* 0 < p <= 100 it is one of the values and does not decrease as p grows
\* (p95 <= p99); for the empty list it is 0.
C27_Percentile ==
    last.op = "percentile" =>
        LET sorted == last.arg[1]
            p == last.arg[2]
            n == Len(sorted)
        IN IF n = 0 THEN last.ret = 0
           ELSE /\ last.ret = sorted[Max(0, CeilRank(p, n) - 1) + 1]
                /\ \E i \in 1..n : sorted[i] = last.ret
                /\ \A q \in Percentiles : q >= p => percentile(sorted, q) >= last.ret
                /\ percentile(sorted, 95) <= percentile(sorted, 99)

\* Twenty-one durations: p95 is the 20th, below p99 and the maximum.
C27_Witness ==
    /\ last.op = "percentile"
    /\ Len(last.arg[1]) = 21
    /\ last.arg[2] = 95
    /\ last.ret = 20
    /\ last.arg[1][19] = 10
    /\ percentile(last.arg[1], 99) = 30

\* ------------------------------------------------------------------ claims: trace route
\* The stored spans of a trace.
TraceSpans(traceId) ==
    {StoredSpans[i] : i \in {j \in 1..Len(StoredSpans) : StoredSpans[j].traceId = traceId}}

\* The latest endTime among the spans, or now if one of them is still open.
LatestEnd(spans) ==
    IF \E s \in spans : s.endTime = Null THEN now
    ELSE CHOOSE t \in {s.endTime[1] : s \in spans} : \A s \in spans : s.endTime[1] <= t

\* C28: GET traces/{traceId} answers 404 when no active or completed span
\* has that trace id; otherwise it returns the spans of the trace in
\* chronological order, totalSpans equal to their number, and duration =
\* (the latest endTime among them, or the current time if one is still open)
\* minus the first span's startTime.
C28_TraceRoute ==
    [][(last'.op = "GET /traces/:traceId" /\ now' = now) =>
          LET traceId == last'.arg
              res == last'.ret
          IN IF TraceSpans(traceId) = {} THEN res.status = 404
             ELSE /\ res.status = 200
                  /\ {res.spans[k] : k \in 1..Len(res.spans)} = TraceSpans(traceId)
                  /\ \A k \in 1..(Len(res.spans) - 1) :
                        res.spans[k].startTime <= res.spans[k + 1].startTime
                  /\ res.totalSpans = Cardinality(TraceSpans(traceId))
                  /\ res.duration = LatestEnd(TraceSpans(traceId)) - res.spans[1].startTime
    ]_vars

\* ------------------------------------------------------------------ claims: health route
\* C29: GET health reports healthy (200) while the error rate of the last
\* window is at most the ceiling, and degraded (503) only when it is above.
C29_Health ==
    [][(last'.op = "GET /health" /\ now' = now) =>
          LET res == last'.ret
              rate == Cardinality(CallsInWindow)
          IN /\ rate <= healthCeiling => res.code = 200 /\ res.status = "healthy"
             /\ (res.code = 503 \/ res.status = "degraded") => rate > healthCeiling
    ]_vars

\* ------------------------------------------------------------------ claims: employee order
\* The order a cache value shows: none before the employees are loaded.
OrderOf(cache) == IF cache = Null THEN << >> ELSE cache[1]

\* The mutations whose callbacks have all run.
Done == {m \in 1..Len(mutations) : mutations[m].pc = "done"}

\* C30: when the reorder API call fails, the employees cache is restored to
\* exactly the order it had before that mutation's optimistic update; and
\* the cache is invalidated once the call has settled, whether it succeeded
\* or failed.
C30_RollbackAndInvalidate ==
    /\ [][\A m \in 1..Len(mutations) :
              (mutations[m].pc = "inflight" /\ mutations'[m].result = "error")
                  => OrderOf(employeesCache') = OrderOf(mutations[m].before)
       ]_vars
    /\ [][\A m \in 1..Len(mutations) :
              (mutations[m].pc # "done" /\ mutations'[m].pc = "done")
                  => /\ mutations[m].result \in {"success", "error"}
                     /\ invalidated' = invalidated + 1
                     /\ refetching'
       ]_vars
    /\ [](invalidated = Cardinality(Done))

\* A reorder that had changed the cached order failed while a later one
\* was in flight: the cache shows the order from before it, and both the
\* failed and a successful reorder have invalidated the cache.
C30_Witness ==
    /\ \E m \in Done :
          /\ mutations[m].result = "error"
          /\ AppliedOrder(mutations[m].payload) # OrderOf(mutations[m].before)
          /\ mutations[m].before = Some(EmployeeIds)
    /\ \E m \in Done : mutations[m].result = "success"
    /\ invalidated = 2

\* seq without the element x.
Without(seq, x) == SelectSeq(seq, LAMBDA e : e # x)

\* C31: the optimistic reorder is in the cache before the API call is even
\* sent (so before it resolves): the dragged employee stands where the
\* target stood and the others keep their order. The payload sent lists
\* every cached employee exactly once, in the reordered order of the cache,
\* as {id, newIndex} only, newIndex being the position in that order.
C31_OptimisticPayload ==
    /\ [][\A m \in 1..Len(mutations) :
              (mutations[m].pc = "onMutate" /\ mutations'[m].pc # "onMutate") =>
                  LET old == OrderOf(employeesCache)
                      new == OrderOf(employeesCache')
                      a == mutations[m].activeId
                      o == mutations[m].overId
                  IN /\ mutations'[m].pc = "pending"
                     /\ IF (\E i \in 1..Len(old) : old[i] = a) /\ (\E i \in 1..Len(old) : old[i] = o)
                        THEN /\ Len(new) = Len(old)
                             /\ \A i \in 1..Len(old) : old[i] = o => new[i] = a
                             /\ Without(new, a) = Without(old, a)
                        ELSE employeesCache' = employeesCache
       ]_vars
    /\ [][\A m \in 1..Len(mutations) :
              (mutations[m].pc # "inflight" /\ mutations'[m].pc = "inflight") =>
                  LET cached == OrderOf(employeesCache)
                      payload == mutations'[m].payload
                  IN /\ mutations[m].pc = "pending"
                     /\ employeesCache' = employeesCache
                     /\ Len(payload) = Len(cached)
                     /\ \A i \in 1..Len(cached) :
                           /\ DOMAIN payload[i] = {"id", "newIndex"}
                           /\ payload[i].id = cached[i]
                           /\ payload[i].newIndex = i - 1
                     /\ \A e \in {cached[i] : i \in 1..Len(cached)} :
                           Cardinality({i \in 1..Len(payload) : payload[i].id = e}) = 1
       ]_vars
    /\ [](\A m \in 1..Len(mutations) :
              mutations[m].result # "pending" => mutations[m].context # Null)

\* Employee 1 was dragged onto employee 3: the API call is in flight, not
\* resolved, the cache shows 2, 3, 1 and the payload lists them so.
C31_Witness ==
    /\ Len(mutations) = 1
    /\ mutations[1].pc = "inflight"
    /\ mutations[1].before = Some(EmployeeIds)
    /\ employeesCache = Some(<<2, 3, 1>>)
    /\ mutations[1].payload = <<[id |-> 2, newIndex |-> 0], [id |-> 3, newIndex |-> 1],
                                [id |-> 1, newIndex |-> 2]>>

\* ------------------------------------------------------------------ claims: cooldown map
\* C32: an entry of the cooldown map, once set, is never removed and its
\* timestamp never decreases; stop(), start(), acknowledgeAlert, getAlerts
\* and the eviction of the alert that set it leave the map unchanged, so a
\* key whose alert was evicted still suppresses alerts of that key until
\* its cooldown has elapsed.
C32_CooldownMapKept ==
    /\ [][\A key \in DOMAIN lastAlertTime :
              /\ key \in DOMAIN lastAlertTime'
              /\ lastAlertTime'[key] >= lastAlertTime[key]
       ]_vars
    /\ [][(last'.op \in {"stop", "start", "acknowledgeAlert", "getAlerts"} /\ now' = now)
              => lastAlertTime' = lastAlertTime
       ]_vars
    /\ [][(last'.op = "createAlert" /\ now' = now) =>
              /\ \A key \in DOMAIN lastAlertTime :
                    key # last'.arg => /\ key \in DOMAIN lastAlertTime'
                                       /\ lastAlertTime'[key] = lastAlertTime[key]
              /\ EmittedWithin(last'.arg) =>
                    /\ last'.ret = Null
                    /\ alerts' = alerts
                    /\ lastAlertTime' = lastAlertTime
       ]_vars
    /\ [](DOMAIN lastAlertTime = DOMAIN emitted
           /\ \A key \in DOMAIN emitted : lastAlertTime[key] = emitted[key])

\* A createAlert is suppressed by the cooldown of a key whose alert was
\* evicted from the store an instant ago.
C32_Witness ==
    /\ last.op = "createAlert"
    /\ last.ret = Null
    /\ now - lastAlertTime[last.arg] = 1
    /\ \A i \in 1..Len(alerts) : KeyOf(alerts[i]) # last.arg
    /\ checkInterval = Null
    /\ nextTimerId > 1

\* ------------------------------------------------------------------ claims: child spans
\* C33: startSpan(traceId, parentSpanId, ...) with tracing enabled adds
\* exactly one in_progress span with that traceId and parentSpanId to the
\* active set, whatever the sample rate and whether or not the root was
\* sampled; with tracing disabled it adds nothing; either way it returns
\* {traceId, a new spanId, parentSpanId}.
C33_StartSpanAlwaysRecords ==
    [][(last'.op = "startSpan" /\ now' = now) =>
          LET traceId == last'.arg[1]
              parentSpanId == last'.arg[2]
              ctx == last'.ret[1]
              added == SpanIds(activeSpans') \ SpanIds(activeSpans)
          IN /\ ctx.traceId = traceId
             /\ ctx.parentSpanId = Some(parentSpanId)
             /\ ctx.spanId \notin SpanIds(activeSpans) \cup SpanIds(completedSpans)
             /\ \A i \in 1..Len(activeSpans) : activeSpans'[i] = activeSpans[i]
             /\ completedSpans' = completedSpans
             /\ IF enabled
                THEN /\ Len(activeSpans') = Len(activeSpans) + 1
                     /\ added = {ctx.spanId}
                     /\ LET span == MapGet(activeSpans', ctx.spanId)
                        IN /\ span.traceId = traceId
                           /\ span.parentSpanId = Some(parentSpanId)
                           /\ span.status = "in_progress"
                           /\ span.endTime = Null
                ELSE activeSpans' = activeSpans
    ]_vars

\* A child span of a trace whose root was not sampled is recorded.
C33_Witness ==
    /\ last.op = "startSpan"
    /\ enabled
    /\ sampleRate < 100
    /\ last.arg[1] \in unsampled
    /\ MapHas(activeSpans, last.ret[1].spanId)
    /\ MapGet(activeSpans, last.ret[1].spanId).traceId = last.arg[1]

\* ------------------------------------------------------------------ claims: overlapping exports
InFlight == {i \in 1..Len(bulks) : bulks[i].response = "pending"}
IdsOf(docs) == {docs[k].id : k \in 1..Len(docs)}

\* C34: a record logged while a bulk export is in flight is neither lost nor
\* added to the request in flight: it is in the buffer until a later flush
\* sends it (the flush of the same log call when the buffer is full) with
\* the whole buffer; the completion of an export, success or failure, does
\* not modify the buffer; and no two requests carry the same record.
C34_InFlightIsolation ==
    /\ [][(last'.op = "log" /\ now' = now /\ InFlight # {}) =>
              LET d == last'.arg[1]
              IN /\ \A i \in 1..Len(bulks) : bulks'[i] = bulks[i]
                 /\ \/ /\ bulks' = bulks
                       /\ buffer'[Len(buffer')].id = d
                       /\ SubSeq(buffer', 1, Len(buffer)) = buffer
                    \/ /\ Len(bulks') = Len(bulks) + 1
                       /\ buffer' = << >>
                       /\ IdsOf(bulks'[Len(bulks')].docs) = IdsOf(buffer) \cup {d}
                       /\ bulks'[Len(bulks')].response = "pending"
       ]_vars
    /\ [][(last'.op \in {"flushInterval", "close"} /\ buffer # << >>) =>
              /\ Len(bulks') = Len(bulks) + 1
              /\ bulks'[Len(bulks')].docs = buffer
              /\ buffer' = << >>
              /\ \A i \in 1..Len(bulks) : bulks'[i] = bulks[i]
       ]_vars
    /\ [][last'.op = "flushSettles" =>
              /\ buffer' = buffer
              /\ \A i \in 1..Len(bulks) : bulks'[i].docs = bulks[i].docs
       ]_vars
    /\ [](\A d \in DocIds :
              Cardinality(SentAt(d)) + (IF Buffered(d) THEN 1 ELSE 0) = 1)

\* Two exports are in flight at once and a record logged meanwhile waits
\* in the buffer.
C34_Witness ==
    /\ last.op = "log"
    /\ Cardinality(InFlight) = 2
    /\ Len(buffer) = 1
    /\ buffer[1].id = last.arg[1]
    /\ \A i \in InFlight : buffer[1].id \notin IdsOf(bulks[i].docs)

\* ------------------------------------------------------------------ claims: hung exports
\* C35: every request sent to the export target completes or fails within
\* a bounded time: a request in flight is eventually settled.
C35_ExportsSettle ==
    \A i \in 1..MaxDocs :
        (i <= Len(bulks) /\ bulks[i].response = "pending")
            ~> (i <= Len(bulks) /\ bulks[i].response # "pending")

\* ------------------------------------------------------------------ claims: notifications
\* C36: with notifications enabled, each stored alert triggers exactly one
\* notification attempt and a suppressed createAlert triggers none; whether
\* the attempt succeeds, fails or stays pending changes neither what
\* createAlert returned, nor the alert store, nor the cooldown map.
C36_NotificationIsolated ==
    /\ [][(last'.op = "createAlert" /\ now' = now /\ emailEnabled) =>
              /\ emailSettled' = emailSettled
              /\ IF Len(alerts') > 0 /\ alerts'[Len(alerts')].id >= nextAlertId
                 THEN /\ emails' = Append(emails, alerts'[Len(alerts')].id)
                      /\ last'.ret = Some(alerts'[Len(alerts')])
                 ELSE /\ emails' = emails
                      /\ last'.ret = Null
       ]_vars
    /\ [](emailEnabled =>
             \A k \in 1..Len(alerts) :
                 Cardinality({i \in 1..Len(emails) : emails[i] = alerts[k].id}) = 1)
    /\ [][(last'.op = "emailSettles" /\ emailSettled' # emailSettled) =>
              /\ alerts' = alerts
              /\ lastAlertTime' = lastAlertTime
              /\ nextAlertId' = nextAlertId
              /\ emails' = emails
       ]_vars

\* Of two stored alerts one e-mail failed and the other is still pending; a
\* third createAlert was suppressed and sent nothing.
C36_Witness ==
    /\ emailEnabled
    /\ last.op = "createAlert"
    /\ last.ret = Null
    /\ Len(alerts) = 2
    /\ Len(emails) = 2
    /\ emailSettled = {[request |-> 1, outcome |-> "failed"]}
    /\ emails[1] = alerts[1].id
    /\ ~alerts[1].acknowledged

\* ------------------------------------------------------------------ claims: collector
\* C37: right after a recordError call the error log ends with the new
\* entry and holds no entry older than the retention window; the request
\* metrics and the database aggregates are as before.
C37_RecordErrorPrunes ==
    [][(last'.op = "recordError" /\ now' = now) =>
          /\ errorLog' # << >>
          /\ errorLog'[Len(errorLog')] =
                [message |-> last'.arg[1], path |-> last'.arg[2], timestamp |-> now]
          /\ \A k \in 1..Len(errorLog') : now - errorLog'[k].timestamp <= errorRetentionMs
          /\ requestMetrics' = requestMetrics
          /\ dbMetrics' = dbMetrics
    ]_vars

\* An error recorded after requests and a database query were recorded: an
\* older error has been pruned.
C37_Witness ==
    /\ last.op = "recordError"
    /\ Len(errorCalls) = 2
    /\ Len(errorLog) = 1
    /\ errorLog[1].timestamp = now
    /\ requestMetrics # << >>
    /\ dbMetrics.count = 1

RECURSIVE SumOf(_)
SumOf(f) ==
    IF DOMAIN f = {} THEN 0
    ELSE LET g == CHOOSE x \in DOMAIN f : TRUE
         IN f[g] + SumOf([x \in DOMAIN f \ {g} |-> f[x]])

\* C38: in every summary the total of the requests is the number of
\* retained request metrics, the sum of the counts by status group and the
\* sum of the counts by method; the error rate of the summary is the number
\* of errors recorded within the last window; the call changes nothing of
\* the collector.
C38_SummaryConsistent ==
    [][last'.op = "getSummary" =>
          LET s == last'.ret
          IN /\ s.total = Len(requestMetrics)
             /\ SumOf(s.byStatus) = s.total
             /\ SumOf(s.byMethod) = s.total
             /\ \A g \in DOMAIN s.byStatus :
                   s.byStatus[g] = Cardinality({i \in 1..Len(requestMetrics) :
                                                 requestMetrics[i].statusCode \div 100 = g})
             /\ s.errorRate = Cardinality(CallsInWindow)
             /\ UNCHANGED <<requestMetrics, dbMetrics, errorLog>>
    ]_vars

\* A summary taken after the oldest metrics were evicted, with requests of
\* two status groups and two methods retained and one error in the window.
C38_Witness ==
    /\ last.op = "getSummary"
    /\ Len(requestMetrics) = maxMetricsRetained \div 2 + 1
    /\ DOMAIN last.ret.byStatus = {2, 5}
    /\ DOMAIN last.ret.byMethod = {"GET", "POST"}
    /\ last.ret.errorRate = 1
    /\ Len(errorCalls) = 2

\* ------------------------------------------------------------------ claims: request chain
Has(tr, ev) == \E i \in 1..Len(tr) : tr[i] = ev
Pos(tr, ev) == CHOOSE i \in 1..Len(tr) : tr[i] = ev /\ \A j \in 1..(i - 1) : tr[j] # ev
Before(tr, a, b) == Has(tr, a) /\ (Has(tr, b) => Pos(tr, a) < Pos(tr, b))

SpanOpenedFirst(q) ==
    LET tr == requests[q].trail
    IN /\ Has(tr, "handling") => Has(tr, "span") /\ Pos(tr, "span") < Pos(tr, "handling")
       /\ (Has(tr, "span") /\ ~Has(tr, "spanClosed")) =>
             MapHas(activeSpans, requests[q].spanId[1])

MetricBeforeSpanClose(q) ==
    LET tr == requests[q].trail
    IN /\ requests[q].pc = "ended" => Has(tr, "metric") /\ Has(tr, "spanClosed")
       /\ Has(tr, "spanClosed") =>
             /\ Has(tr, "metric") /\ Pos(tr, "metric") < Pos(tr, "spanClosed")
             /\ ~MapHas(activeSpans, requests[q].spanId[1])
             /\ \E i \in 1..Len(completedSpans) :
                   completedSpans[i].spanId = requests[q].spanId[1]
       /\ Has(tr, "metric") =>
             \E i \in 1..Len(requestMetrics) :
                 /\ requestMetrics[i].timestamp = requests[q].startDate
                 /\ requestMetrics[i].statusCode = requests[q].statusCode

\* C39: for every request the span is opened before the handling starts,
\* and at the end of the response the metric is recorded before the span is
\* closed; an error that reaches the error tracker before the response was
\* sent is recorded before the metric and before the span is closed, and one
\* that reaches it after the response ended is recorded after both.
C39_ChainOrder ==
    \A q \in ReqIds :
        LET tr == requests[q].trail
        IN /\ SpanOpenedFirst(q)
           /\ MetricBeforeSpanClose(q)
           /\ Has(tr, "error") <=> requests[q].headersSent # Null
           /\ Has(tr, "error") => errorCalls # << >>
           /\ requests[q].headersSent = Some(FALSE) =>
                 Pos(tr, "error") < Pos(tr, "metric") /\ Pos(tr, "error") < Pos(tr, "spanClosed")
           /\ requests[q].headersSent = Some(TRUE) =>
                 Pos(tr, "metric") < Pos(tr, "error") /\ Pos(tr, "spanClosed") < Pos(tr, "error")

\* C39 as stated: every error routed through the error tracker is recorded
\* before the metric of its request is recorded and its span is closed.
C39_AsStated ==
    \A q \in ReqIds :
        LET tr == requests[q].trail
        IN /\ SpanOpenedFirst(q)
           /\ MetricBeforeSpanClose(q)
           /\ Has(tr, "error") => Before(tr, "error", "metric") /\ Before(tr, "error", "spanClosed")

\* A request that continued a trace, failed in the domain code and was
\* answered by the error tracker.
C39_Witness ==
    \E q \in ReqIds :
        /\ requests[q].trail = <<"span", "logger", "handling", "error", "metric", "spanClosed">>
        /\ requests[q].headersSent = Some(FALSE)
        /\ requests[q].statusCode = 500
        /\ Len(requestMetrics) = 1
        /\ Len(completedSpans) = 1
        /\ completedSpans[1].parentSpanId # Null
        /\ completedSpans[1].status = "error"
        /\ Len(errorLog) = 1

\* C40: every alert of type error_rate is stored at a moment when the error
\* rate is at least the configured threshold, and is critical only if the
\* rate is at least twice the threshold, whether the scheduled check or the
\* error tracker of the request chain stored it.
C40_ErrorRateAlertAtThreshold ==
    [][\A i \in 1..Len(alerts') :
          (alerts'[i].type = "error_rate" /\ alerts'[i].id >= nextAlertId) =>
              LET rate == Len(SelectSeq(errorLog', LAMBDA e : e.timestamp > now' - errorWindowMs))
              IN /\ rate >= errorRateThreshold
                 /\ alerts'[i].severity = "critical" => rate >= 2 * errorRateThreshold
    ]_vars
====
